---- MODULE Spec2Model ----
(***************************************************************************)
(* Chessy game server: the per-game coordinator (socket handlers of        *)
(* gameHandler), the chess clock and the timeout watcher (ClockManager),   *)
(* the stats hook (applyGameStats), the disconnect handler of the socket   *)
(* index and the two per-game locks (PremoveManager: in-memory promise     *)
(* chain and Redis SET NX PX).                                             *)
(*                                                                         *)
(* One game is modelled, which exists in the store; games do not share     *)
(* state.  Every `await` of the JavaScript source is a step boundary: one  *)
(* action is the awaited store or lock operation together with the         *)
(* synchronous code that follows it up to the next await.                  *)
(*                                                                         *)
(* Spec is the coordinator, with the lock its handlers take held for       *)
(* milliseconds (far below its expiry).  LockSpec is withLock on its own,  *)
(* with callers that may hold it for any time.                             *)
(*                                                                         *)
(* JavaScript null is 0 for a number, "none" for a string and NoPremove    *)
(* for a premove slot.  statsApplied and the draw-offer fields of the      *)
(* document are modelled as the handlers read and write them.              *)
(***************************************************************************)
EXTENDS Integers, Sequences, FiniteSets, TLC

\* ---------------------------------------------------------------- bounds
NProc == 2          \* handler invocations that may be in flight together
MaxOps == 3         \* handler invocations started in one behaviour
MaxPly == 3         \* half-moves the rules library accepts in one game
MaxTicks == 2       \* times the wall clock advances
TickMs == 30001     \* wall-clock advance of one tick, in ms
T0 == 1             \* Date.now() when the game is created
BaseMinutes == 1    \* timeControl.time chosen by the matchmaker
IncSeconds == 0     \* timeControl.increment chosen by the matchmaker
MaxConn == 1        \* live sockets one user may hold at a time
NCalls == 2         \* withLock calls on one game in the lock models
MaxLockMs == 5200   \* time the Redis lock model runs for, in ms
MaxClockCalls == 4  \* makeMove calls on one clock in the clock model
MaxIncSeconds == 1  \* largest timeControl.increment in the clock model
MaxQueueCalls == 3  \* calls on the in-memory premove store in one behaviour
MaxRematchOps == 4  \* rematch handler invocations started in one behaviour
MaxHydrateMoves == 2  \* make_move invocations on the game with in-memory premoves
MaxHydrateJoins == 2  \* join_game invocations on that game

\* ------------------------------------------------------ program constants
MAX_LAG_COMPENSATION == 500
FirstMoveMs == 30000
DisconnectGraceMs == 20000
LockTtlMs == 5000
RetryLimit == 30
RetryDelayMs == 100

Min(a, b) == IF a < b THEN a ELSE b
Max(a, b) == IF a > b THEN a ELSE b

\* ------------------------------------------------------------------ users
Users == {"W", "B", "X"}          \* white player, black player, a stranger
Colors == {"white", "black"}
Other(color) == IF color = "white" THEN "black" ELSE "white"
ColorChar(color) == IF color = "white" THEN "w" ELSE "b"

\* getPlayerColor(game): 'white' | 'black' | null
getPlayerColor(user) ==
    IF user = "W" THEN "white" ELSE IF user = "B" THEN "black" ELSE "none"

\* ---------------------------------------------------------- rules library
\* chess.js is an external collaborator.  A position is its move history; a
\* move is a token.  "mate" and "stale" stand for a move that gives
\* checkmate / stalemate; a move repeating the previous token stands for a
\* move that is illegal in the position it meets.
Moves == {"a", "b", "mate", "stale"}

Last(h) == h[Len(h)]

\* chess.turn()
Turn(h) == IF Len(h) % 2 = 0 THEN "w" ELSE "b"
TurnColor(h) == IF Turn(h) = "w" THEN "white" ELSE "black"

\* chess.isCheckmate(), chess.isStalemate(), chess.isDraw(), chess.isGameOver()
IsCheckmate(h) == Len(h) > 0 /\ Last(h) = "mate"
IsStalemate(h) == Len(h) > 0 /\ Last(h) = "stale"
IsDraw(h) == IsStalemate(h)
IsGameOver(h) == IsCheckmate(h) \/ IsDraw(h)

\* chess.move(m) succeeds
Legal(h, m) ==
    /\ Len(h) < MaxPly
    /\ ~IsGameOver(h)
    /\ (Len(h) > 0 => m # Last(h))

\* -------------------------------------------------------------- the clock
\* new ClockManager(timeControl) as stored by the matchmaker
NewClock(createdAt) ==
    [ whiteTime |-> BaseMinutes * 60 * 1000,
      blackTime |-> BaseMinutes * 60 * 1000,
      activeColor |-> "none",
      lastMoveAt |-> 0,
      firstMoveDeadline |-> createdAt + FirstMoveMs,
      moveCount |-> 0,
      increment |-> IncSeconds * 1000 ]

\* ClockManager._calculateLagCompensation
LagCompensation(clientTimestamp, serverTimestamp) ==
    IF clientTimestamp = 0 \/ clientTimestamp > serverTimestamp
    THEN 0
    ELSE Min(serverTimestamp - clientTimestamp, MAX_LAG_COMPENSATION)

\* variant of ClockMakeMove: the increment is not credited
ClockMakeMoveNoIncrement(c, color, clientTimestamp, serverTimestamp) ==
    IF c.activeColor = "none"
    THEN IF color # "w"
         THEN [err |-> "White must make the first move", timeout |-> FALSE,
               winner |-> "none", clock |-> c]
         ELSE [err |-> "none", timeout |-> FALSE, winner |-> "none",
               clock |-> [c EXCEPT !.activeColor = "b",
                                   !.lastMoveAt = serverTimestamp,
                                   !.firstMoveDeadline = 0,
                                   !.moveCount = @ + 1]]
    ELSE IF c.activeColor # color
    THEN [err |-> "Not your turn", timeout |-> FALSE, winner |-> "none",
          clock |-> c]
    ELSE LET elapsed == serverTimestamp - c.lastMoveAt
             comp == LagCompensation(clientTimestamp, serverTimestamp)
             d == [c EXCEPT
                     !.whiteTime = IF c.activeColor = "w"
                                   THEN @ - elapsed + comp ELSE @,
                     !.blackTime = IF c.activeColor = "b"
                                   THEN @ - elapsed + comp ELSE @]
         IN IF d.whiteTime <= 0 \/ d.blackTime <= 0
            THEN [err |-> "none", timeout |-> TRUE,
                  winner |-> IF d.whiteTime <= 0 THEN "black" ELSE "white",
                  clock |-> d]
            ELSE [err |-> "none", timeout |-> FALSE, winner |-> "none",
                  clock |-> [d EXCEPT
                               !.activeColor = IF c.activeColor = "w" THEN "b" ELSE "w",
                               !.lastMoveAt = serverTimestamp,
                               !.moveCount = @ + 1]]

\* variant of ClockMakeMove: the first move credits the increment
ClockMakeMoveFirstIncrement(c, color, clientTimestamp, serverTimestamp) ==
    IF c.activeColor = "none"
    THEN IF color # "w"
         THEN [err |-> "White must make the first move", timeout |-> FALSE,
               winner |-> "none", clock |-> c]
         ELSE [err |-> "none", timeout |-> FALSE, winner |-> "none",
               clock |-> [c EXCEPT !.whiteTime = @ + c.increment,
                                   !.activeColor = "b",
                                   !.lastMoveAt = serverTimestamp,
                                   !.firstMoveDeadline = 0,
                                   !.moveCount = @ + 1]]
    ELSE IF c.activeColor # color
    THEN [err |-> "Not your turn", timeout |-> FALSE, winner |-> "none",
          clock |-> c]
    ELSE LET elapsed == serverTimestamp - c.lastMoveAt
             comp == LagCompensation(clientTimestamp, serverTimestamp)
             d == [c EXCEPT
                     !.whiteTime = IF c.activeColor = "w"
                                   THEN @ - elapsed + comp + c.increment ELSE @,
                     !.blackTime = IF c.activeColor = "b"
                                   THEN @ - elapsed + comp + c.increment ELSE @]
         IN IF d.whiteTime <= 0 \/ d.blackTime <= 0
            THEN [err |-> "none", timeout |-> TRUE,
                  winner |-> IF d.whiteTime <= 0 THEN "black" ELSE "white",
                  clock |-> d]
            ELSE [err |-> "none", timeout |-> FALSE, winner |-> "none",
                  clock |-> [d EXCEPT
                               !.activeColor = IF c.activeColor = "w" THEN "b" ELSE "w",
                               !.lastMoveAt = serverTimestamp,
                               !.moveCount = @ + 1]]

\* variant of ClockMakeMove: the clock is started before the colour is checked
ClockMakeMoveStartsFirst(c, color, clientTimestamp, serverTimestamp) ==
    IF c.activeColor = "none"
    THEN IF color # "w"
         THEN [err |-> "White must make the first move", timeout |-> FALSE,
               winner |-> "none",
               clock |-> [c EXCEPT !.activeColor = "w",
                                   !.lastMoveAt = serverTimestamp,
                                   !.firstMoveDeadline = 0]]
         ELSE [err |-> "none", timeout |-> FALSE, winner |-> "none",
               clock |-> [c EXCEPT !.activeColor = "b",
                                   !.lastMoveAt = serverTimestamp,
                                   !.firstMoveDeadline = 0,
                                   !.moveCount = @ + 1]]
    ELSE IF c.activeColor # color
    THEN [err |-> "Not your turn", timeout |-> FALSE, winner |-> "none",
          clock |-> c]
    ELSE LET elapsed == serverTimestamp - c.lastMoveAt
             comp == LagCompensation(clientTimestamp, serverTimestamp)
             d == [c EXCEPT
                     !.whiteTime = IF c.activeColor = "w"
                                   THEN @ - elapsed + comp + c.increment ELSE @,
                     !.blackTime = IF c.activeColor = "b"
                                   THEN @ - elapsed + comp + c.increment ELSE @]
         IN IF d.whiteTime <= 0 \/ d.blackTime <= 0
            THEN [err |-> "none", timeout |-> TRUE,
                  winner |-> IF d.whiteTime <= 0 THEN "black" ELSE "white",
                  clock |-> d]
            ELSE [err |-> "none", timeout |-> FALSE, winner |-> "none",
                  clock |-> [d EXCEPT
                               !.activeColor = IF c.activeColor = "w" THEN "b" ELSE "w",
                               !.lastMoveAt = serverTimestamp,
                               !.moveCount = @ + 1]]

\* variant of ClockMakeMove: a timeout result still switches the turn
ClockMakeMoveFlagFlips(c, color, clientTimestamp, serverTimestamp) ==
    IF c.activeColor = "none"
    THEN IF color # "w"
         THEN [err |-> "White must make the first move", timeout |-> FALSE,
               winner |-> "none", clock |-> c]
         ELSE [err |-> "none", timeout |-> FALSE, winner |-> "none",
               clock |-> [c EXCEPT !.activeColor = "b",
                                   !.lastMoveAt = serverTimestamp,
                                   !.firstMoveDeadline = 0,
                                   !.moveCount = @ + 1]]
    ELSE IF c.activeColor # color
    THEN [err |-> "Not your turn", timeout |-> FALSE, winner |-> "none",
          clock |-> c]
    ELSE LET elapsed == serverTimestamp - c.lastMoveAt
             comp == LagCompensation(clientTimestamp, serverTimestamp)
             d == [c EXCEPT
                     !.whiteTime = IF c.activeColor = "w"
                                   THEN @ - elapsed + comp + c.increment ELSE @,
                     !.blackTime = IF c.activeColor = "b"
                                   THEN @ - elapsed + comp + c.increment ELSE @]
         IN IF d.whiteTime <= 0 \/ d.blackTime <= 0
            THEN [err |-> "none", timeout |-> TRUE,
                  winner |-> IF d.whiteTime <= 0 THEN "black" ELSE "white",
                  clock |-> [d EXCEPT
                               !.activeColor = IF c.activeColor = "w" THEN "b" ELSE "w",
                               !.lastMoveAt = serverTimestamp,
                               !.moveCount = @ + 1]]
            ELSE [err |-> "none", timeout |-> FALSE, winner |-> "none",
                  clock |-> [d EXCEPT
                               !.activeColor = IF c.activeColor = "w" THEN "b" ELSE "w",
                               !.lastMoveAt = serverTimestamp,
                               !.moveCount = @ + 1]]

\* ClockManager.makeMove(color, clientTimestamp) at Date.now() = serverTimestamp.
\* err # "none" is the thrown Error; timeout is the timeout result.
ClockMakeMove(c, color, clientTimestamp, serverTimestamp) ==
    IF c.activeColor = "none"
    THEN IF color # "w"
         THEN [err |-> "White must make the first move", timeout |-> FALSE,
               winner |-> "none", clock |-> c]
         ELSE [err |-> "none", timeout |-> FALSE, winner |-> "none",
               clock |-> [c EXCEPT !.activeColor = "b",
                                   !.lastMoveAt = serverTimestamp,
                                   !.firstMoveDeadline = 0,
                                   !.moveCount = @ + 1]]
    ELSE IF c.activeColor # color
    THEN [err |-> "Not your turn", timeout |-> FALSE, winner |-> "none",
          clock |-> c]
    ELSE LET elapsed == serverTimestamp - c.lastMoveAt
             comp == LagCompensation(clientTimestamp, serverTimestamp)
             d == [c EXCEPT
                     !.whiteTime = IF c.activeColor = "w"
                                   THEN @ - elapsed + comp + c.increment ELSE @,
                     !.blackTime = IF c.activeColor = "b"
                                   THEN @ - elapsed + comp + c.increment ELSE @]
         IN IF d.whiteTime <= 0 \/ d.blackTime <= 0
            THEN [err |-> "none", timeout |-> TRUE,
                  winner |-> IF d.whiteTime <= 0 THEN "black" ELSE "white",
                  clock |-> d]
            ELSE [err |-> "none", timeout |-> FALSE, winner |-> "none",
                  clock |-> [d EXCEPT
                               !.activeColor = IF c.activeColor = "w" THEN "b" ELSE "w",
                               !.lastMoveAt = serverTimestamp,
                               !.moveCount = @ + 1]]

\* ClockManager.getCurrentTime() at Date.now() = t
GetCurrentTime(c, t) ==
    IF c.activeColor = "none" \/ c.lastMoveAt = 0
    THEN [whiteTime |-> c.whiteTime, blackTime |-> c.blackTime]
    ELSE [whiteTime |-> IF c.activeColor = "w"
                        THEN Max(0, c.whiteTime - (t - c.lastMoveAt)) ELSE c.whiteTime,
          blackTime |-> IF c.activeColor = "b"
                        THEN Max(0, c.blackTime - (t - c.lastMoveAt)) ELSE c.blackTime]

\* ClockManager.isTimeout()
IsTimeout(c, t) ==
    GetCurrentTime(c, t).whiteTime <= 0 \/ GetCurrentTime(c, t).blackTime <= 0

\* ClockManager.isFirstMoveExpired()
IsFirstMoveExpired(c, t) == c.firstMoveDeadline # 0 /\ t > c.firstMoveDeadline

\* -------------------------------------------------------------- premoves
NoPremove == [mv |-> "none", setAt |-> 0, sourceMoveNo |-> 0]

\* PremoveManager.getPremove(game, color) of the stateless manager: the slot
\* of the game object the caller holds (null when empty)
getPremove(game, color) == IF color = "white" THEN game.qpWhite ELSE game.qpBlack

SetSlot(game, color, p) ==
    IF color = "white" THEN [game EXCEPT !.qpWhite = p] ELSE [game EXCEPT !.qpBlack = p]

\* ----------------------------------------------------------- the document
\* The Game document as the matchmaker stores it.
NewGame(createdAt) ==
    [ clock |-> NewClock(createdAt),
      qpWhite |-> NoPremove,
      qpBlack |-> NoPremove,
      pgn |-> << >>,
      status |-> "ongoing",
      result |-> "none",
      resultReason |-> "none",
      disconnectedPlayerId |-> "none",
      disconnectDeadlineAt |-> 0,
      statsApplied |-> FALSE,
      pendingDrawOfferFrom |-> "none",
      whiteDrawOffers |-> 0,
      blackDrawOffers |-> 0 ]

Fields == DOMAIN NewGame(T0)

\* Game.updateOne({_id}, {$set: patch}): the named fields take doc's values
Patch(stored, doc, fields) ==
    [f \in Fields |-> IF f \in fields THEN doc[f] ELSE stored[f]]

\* document.save(): Mongoose writes the paths whose value differs from the
\* value that was loaded
Save(stored, loaded, doc) ==
    [f \in Fields |-> IF doc[f] # loaded[f] THEN doc[f] ELSE stored[f]]

\* ------------------------------------------------------------------ state
VARIABLES
    db,            \* the stored Game document
    lock,          \* the Redis key lock:game:<id> exists
    procs,         \* handler invocations in flight, by slot
    now,           \* Date.now()
    ticks,         \* wall-clock advances so far
    ops,           \* handler invocations started so far
    statsPending,  \* applyGameStats calls fired and not yet run
    statsInc,      \* times the players' win/loss/draw counters were incremented
    conn,          \* live sockets of each user (joined to the game room)
    out,           \* events emitted by the latest step, in order
    gameOverCount, \* game_over events emitted so far
    lastMovePly,   \* moveCount of the latest move_made emitted (0: none)
    episode,       \* outcomes emitted since the latest disconnect marker was stored
    premoveReq,    \* per colour: premove_set emitted ("set"), then cancelled
    premovesQueued,   \* premove_set events emitted so far
    premovesExecuted, \* move_made events of executed premoves emitted so far
    mem,           \* PremoveManager (in-memory): _locks and the withLock calls
    red,           \* PremoveManager (Redis): the lock key and the withLock calls
    clk,           \* a ClockManager object and its latest makeMove call
    pq,            \* PremoveManager (in-memory): _store and the latest call on it
    rm,            \* a completed game, its rematch handlers and the games they create
    hy             \* a game of the handlers that queue premoves in memory

cvars == << db, lock, procs, now, ticks, ops, statsPending, statsInc, conn,
            out, gameOverCount, lastMovePly, premovesQueued, premovesExecuted,
            episode, premoveReq >>
lvars == << mem, red >>
pvars == << clk, pq, rm, hy >>
vars == << cvars, lvars, pvars >>

Procs == 1 .. NProc

\* withLock calls of the lock models
Calls == 1 .. NCalls

MemInit ==
    [ tail |-> 0,      \* _locks.get(gameId): the call whose promise is stored (0: none)
      calls |-> [c \in Calls |->
                  [pc |-> "idle", pending |-> 0,
                   resolved |-> FALSE,  \* resolve() of the call's promise ran
                   fn |-> "none",       \* how fn settled: "ok" or "threw"
                   outcome |-> "none"]] ]  \* how withLock itself settled

RedInit ==
    [ calls |-> [c \in Calls |-> [pc |-> "idle", fn |-> "none", outcome |-> "none",
                                  attempts |-> 0, wakeAt |-> 0]],
      key |-> FALSE,   \* lock:game:<id> is set
      expiresAt |-> 0, \* when its PX expiry removes it
      time |-> 0 ]

Idle ==
    [ user |-> "none", game |-> NewGame(T0), loaded |-> NewGame(T0),
      pc |-> "idle", op |-> "idle", move |-> "none", cts |-> 0,
      isGameOver |-> FALSE, pm |-> "none",
      sent |-> << >> ]   \* what a make_move invocation has emitted so far

\* an emitted event
Ev(type, ply, by, result, reason) ==
    [result |-> result, ply |-> ply, by |-> by, reason |-> reason, ev |-> type]

GameOverEv(result, reason) == Ev("game_over", 0, "none", result, reason)
ErrorEv(user) == Ev("error", 0, user, "none", "none")

CountGameOver(evs) == Cardinality({i \in DOMAIN evs : evs[i].ev = "game_over"})

MovePlies(evs) == {evs[i].ply : i \in {j \in DOMAIN evs : evs[j].ev = "move_made"}}

CountPremoveSet(evs) == Cardinality({i \in DOMAIN evs : evs[i].ev = "premove_set"})

\* the move_made of an executed premove carries the premove's colour in `by`
\* (a tag of the model: the payloads of the two move_made emitters are alike)
CountPremoveMoves(evs) ==
    Cardinality({i \in DOMAIN evs : evs[i].ev = "move_made" /\ evs[i].by # "none"})

\* the outcomes of a disconnect episode among emitted events
EpisodeOutcomes(evs) ==
    (IF \E i \in DOMAIN evs : evs[i].ev = "opponent_reconnected"
     THEN {"reconnected"} ELSE {})
    \cup (IF \E i \in DOMAIN evs : /\ evs[i].ev = "game_over"
                                    /\ evs[i].reason = "disconnect_timeout"
          THEN {"forfeited"} ELSE {})

\* opponent_disconnected with reconnectDeadlineAt: a disconnect episode begins
StartsEpisode(evs) ==
    \E i \in DOMAIN evs : evs[i].ev = "opponent_disconnected" /\ evs[i].reason = "grace"

\* a colour's latest premove request after the events evs: premove_set, or
\* premove_cleared{cancelled} behind a premove_set
PremoveRequests(req, evs) ==
    [c \in Colors |->
        IF \E i \in DOMAIN evs : evs[i].ev = "premove_set" /\ evs[i].by = c
        THEN "set"
        ELSE IF /\ req[c] = "set"
                /\ \E i \in DOMAIN evs : /\ evs[i].ev = "premove_cleared"
                                          /\ evs[i].by = c
                                          /\ evs[i].reason = "cancelled"
        THEN "cancelled"
        ELSE req[c]]

\* what every step does with the emitted events
Emit(evs) ==
    /\ out' = evs
    /\ episode' = IF StartsEpisode(evs) THEN {} ELSE episode \cup EpisodeOutcomes(evs)
    /\ premoveReq' = PremoveRequests(premoveReq, evs)
    /\ gameOverCount' = gameOverCount + CountGameOver(evs)
    /\ lastMovePly' = IF MovePlies(evs) = {} THEN lastMovePly
                      ELSE CHOOSE n \in MovePlies(evs) : \A k \in MovePlies(evs) : k <= n
    /\ premovesQueued' = premovesQueued + CountPremoveSet(evs)
    /\ premovesExecuted' = premovesExecuted + CountPremoveMoves(evs)

\* a ClockManager built for an increment of s seconds, before any call
\* ------------------------------------- the in-memory premove store, pure
QueueGames == {"g1", "g2"}

\* null; a premove object p is the one-element sequence << p >>
Null == << >>

\* this._store.get(gameId) of a game without an entry
NoEntry == [white |-> Null, black |-> Null, has |-> FALSE]

\* the new Map() of the constructor
EmptyStore == [g \in QueueGames |-> NoEntry]

\* JavaScript falsy values of the string-valued fields
Falsy(v) == v \in {"undefined", "null", ""}

\* v || undefined
OrUndefined(v) == IF Falsy(v) THEN "undefined" ELSE v

\* v ?? null
OrNull(v) == IF v \in {"undefined", "null"} THEN "null" ELSE v

\* _ensure(gameId)
Ensure(store, g) ==
    IF store[g].has THEN store
    ELSE [store EXCEPT ![g] = [white |-> Null, black |-> Null, has |-> TRUE]]

\* a setPremove that clears the other colour's slot
SetPremoveBothSlots(store, g, color, p, t) ==
    [store EXCEPT ![g] =
        [[white |-> Null, black |-> Null, has |-> TRUE] EXCEPT ![color] =
            << [setAt |-> IF p.setAt = 0 THEN t ELSE p.setAt, sourceMoveNo |-> OrNull(p.sourceMoveNo),
        from |-> p.from, to |-> p.to, promotion |-> OrUndefined(p.promotion)] >>]]

\* setPremove(gameId, color, premove) at Date.now() = t; a setAt of 0 stands
\* for an absent one
SetPremove(store, g, color, p, t) ==
    [Ensure(store, g) EXCEPT ![g][color] =
        << [setAt |-> IF p.setAt = 0 THEN t ELSE p.setAt, sourceMoveNo |-> OrNull(p.sourceMoveNo),
        from |-> p.from, to |-> p.to, promotion |-> OrUndefined(p.promotion)] >>]

\* getPremove(gameId, color)
GetPremove(store, g, color) ==
    IF ~store[g].has THEN Null ELSE store[g][color]

\* clearPremove(gameId, color, reason)
ClearPremove(store, g, color) ==
    IF ~store[g].has THEN store ELSE [store EXCEPT ![g][color] = Null]

\* clearAll(gameId, reason): this._store.delete(gameId)
ClearAll(store, g) == [store EXCEPT ![g] = NoEntry]

\* p && p.from && p.to
Complete(s) == s # Null /\ ~Falsy(s[1].from) /\ ~Falsy(s[1].to)

\* the object rehydrate builds from a stored premove; a setAt of 0 stands for
\* an absent or null one
Rehydrated(p) ==
    [setAt |-> p.setAt, sourceMoveNo |-> OrNull(p.sourceMoveNo),
        from |-> p.from, to |-> p.to, promotion |-> OrUndefined(p.promotion)]

\* rehydrate(gameId, queuedPremoves); q is Null or << [white, black] >>
Rehydrate(store, g, q) ==
    IF q = Null THEN store
    ELSE LET e == Ensure(store, g)
             Slot(color) == IF Complete(q[1][color])
                            THEN << Rehydrated(q[1][color][1]) >>
                            ELSE e[g][color]
         IN [e EXCEPT ![g] = [white |-> Slot("white"), black |-> Slot("black"),
                              has |-> TRUE]]

\* the store after construction, no call made yet
PqNew ==
    [color |-> "white", game |-> "g1", stored |-> Null, calls |-> 0,
     op |-> "none", store |-> EmptyStore, before |-> EmptyStore,
     arg |-> Null]

\* ------------------------------------------------- rematch, the documents
\* the rematch fields of a completed game (white W, black B) as the schema
\* defaults them; nextGameId 0 stands for null
NoRematch == [rematchOfferFrom |-> "none", rematchDeclined |-> FALSE, nextGameId |-> 0]

\* a rematch handler invocation that is not running
RmIdle == [user |-> "none", doc |-> NoRematch, loaded |-> NoRematch, pc |-> "idle",
           newGameId |-> 0]

\* the completed game, no game created from it, no handler running
RmNew ==
    [game |-> NoRematch,
     procs |-> [p \in Procs |-> RmIdle],
     created |-> << >>,    \* the games saved by accept_rematch; a game's id is its index
     accepted |-> << >>,   \* the newGameId of each rematch_accepted event
     started |-> 0]

\* ------------------------------------- premoves queued in memory, the state
\* no handler holds the in-memory lock of the game
HyIdle == [color |-> "white", pc |-> "idle", legal |-> FALSE, premove |-> Null]

\* game g1 (white to move, nothing queued), the in-memory store after
\* construction, no handler running
HyNew ==
    [h |-> HyIdle,           \* the handler inside premoveManager.withLock
     stored |-> << [white |-> Null, black |-> Null] >>,  \* game.queuedPremoves
     store |-> EmptyStore,   \* premoveManager._store
     turn |-> "white",       \* the side to move of the stored pgn
     join |-> [loaded |-> Null, pc |-> "idle"],   \* a join_game invocation
     cleared |-> {},         \* `from` of the premoves cleared in memory as executed,
                             \* rejected or cancelled
     executed |-> << >>,     \* `from` of the premoves executed, in order
     used |-> {},            \* squares named by set_premove so far
     moves |-> 0,
     joins |-> 0]

ClkNew(s) ==
    [ color |-> "none",       \* the latest call's arguments
      err |-> "none",         \* its outcome
      timeout |-> FALSE,
      winner |-> "none",
      clock |-> [NewClock(T0) EXCEPT !.increment = s * 1000],
      comp |-> 0,             \* _calculateLagCompensation of the latest call's arguments
      calls |-> 0,            \* makeMove calls so far
      time |-> T0,            \* Date.now()
      cts |-> 0,
      before |-> NewClock(T0),\* the object before the latest call
      waited |-> FALSE,       \* time has passed since the latest call
      flagged |-> FALSE,      \* some call returned a timeout result
      elapsedSum |-> 0,       \* elapsed time deducted by all calls
      compSum |-> 0 ]         \* lag compensation credited by all calls

Init ==
    /\ clk = ClkNew(IncSeconds)
    /\ pq = PqNew
    /\ rm = RmNew
    /\ hy = HyNew
    /\ db = NewGame(T0)
    /\ lock = FALSE
    /\ procs = [p \in Procs |-> Idle]
    /\ now = T0
    /\ ticks = 0
    /\ ops = 0
    /\ statsPending = 0
    /\ statsInc = 0
    /\ conn = [u \in Users |-> IF u = "X" THEN 0 ELSE 1]
    /\ out = << >>
    /\ gameOverCount = 0
    /\ lastMovePly = 0
    /\ episode = {}
    /\ premoveReq = [c \in Colors |-> "none"]
    /\ premovesQueued = 0
    /\ premovesExecuted = 0
    /\ mem = MemInit
    /\ red = RedInit

\* a new invocation takes the lowest free slot (slots are interchangeable)
CanStart(p) ==
    /\ procs[p].op = "idle"
    /\ \A q \in Procs : q < p => procs[q].op # "idle"
    /\ ops < MaxOps

Begin(p, op, pc, user) ==
    [Idle EXCEPT !.op = op, !.pc = pc, !.user = user]

\* time passes between handler invocations: a handler runs in milliseconds,
\* a tick is TickMs
Tick ==
    /\ ticks < MaxTicks
    /\ \A p \in Procs : procs[p].op = "idle"
    /\ statsPending = 0
    /\ now' = now + TickMs
    /\ ticks' = ticks + 1
    /\ Emit(<< >>)
    /\ UNCHANGED << db, lock, procs, ops, statsPending, statsInc, conn >>
    /\ UNCHANGED << lvars, pvars >>

\* ------------------------------------------------------------- make_move
\* socket.on('make_move'): the pre-lock part and withLock's SET NX PX
MakeMoveBegin(p, user, move, cts) ==
    /\ CanStart(p)
    /\ lock = FALSE
    /\ lock' = TRUE
    /\ procs' = [procs EXCEPT ![p] =
                   [Begin(p, "make_move", "locked", user) EXCEPT
                      !.move = move, !.cts = IF cts = 0 THEN now ELSE cts]]
    /\ ops' = ops + 1
    /\ Emit(<< >>)
    /\ UNCHANGED << db, now, ticks, statsPending, statsInc, conn >>
    /\ UNCHANGED << lvars, pvars >>

\* the result of the locked section of make_move on the loaded game g:
\* [ok, game, isGameOver, evs]
MakeMoveLocked(g, user, move, cts, t) ==
    LET isWhiteTurn == Turn(g.pgn) = "w"
        isWhitePlayer == user = "W"
        moverColor == IF isWhitePlayer THEN "white" ELSE "black"
        hadPremove == getPremove(g, moverColor) # NoPremove
        g1 == IF hadPremove THEN SetSlot(g, moverColor, NoPremove) ELSE g
        evs1 == IF hadPremove
                THEN << Ev("premove_cleared", 0, moverColor, "none", "cancelled") >>
                ELSE << >>
        r == ClockMakeMove(g.clock, ColorChar(moverColor),
                           cts, t)
        g2 == IF r.timeout
              THEN [g1 EXCEPT !.status = "completed", !.result = r.winner,
                              !.clock = r.clock]
              ELSE [g1 EXCEPT !.clock = r.clock]
        evs2 == IF r.timeout
                THEN evs1 \o << GameOverEv(r.winner, "timeout"),
                                Ev("clock_update", 0, "none", "none", "none") >>
                ELSE evs1
        h == Append(g.pgn, move)
        g3 == [g2 EXCEPT !.pgn = h]
        over == ~r.timeout /\ IsGameOver(h)
        g4 == IF ~over THEN g3
              ELSE IF IsCheckmate(h)
              THEN [g3 EXCEPT !.status = "completed",
                              !.result = IF Turn(h) = "w" THEN "black" ELSE "white",
                              !.resultReason = "checkmate"]
              ELSE [g3 EXCEPT !.status = "completed", !.result = "draw",
                              !.resultReason = IF IsStalemate(h) THEN "stalemate"
                                               ELSE "draw"]
    IN IF user \notin {"W", "B"}
       THEN [game |-> g, isGameOver |-> FALSE,
             evs |-> << ErrorEv(user) >>, ok |-> FALSE]
       ELSE IF (isWhiteTurn /\ ~isWhitePlayer) \/ (~isWhiteTurn /\ isWhitePlayer)
       THEN [game |-> g, isGameOver |-> FALSE,
             evs |-> << ErrorEv(user) >>, ok |-> FALSE]
       ELSE IF ~Legal(g.pgn, move)
       THEN [game |-> g, isGameOver |-> FALSE,
             evs |-> << ErrorEv(user) >>, ok |-> FALSE]
       ELSE IF r.err # "none"
       THEN [game |-> g1, isGameOver |-> FALSE,
             evs |-> evs1 \o << ErrorEv(user) >>, ok |-> FALSE]
       ELSE [game |-> g4, isGameOver |-> r.timeout \/ over,
             evs |-> evs2, ok |-> TRUE]

\* Game.findById inside the lock and the locked section up to redis.del
MakeMoveInLock(p) ==
    /\ procs[p].op = "make_move" /\ procs[p].pc = "locked"
    /\ LET res == MakeMoveLocked(db, procs[p].user, procs[p].move, procs[p].cts, now)
       IN /\ procs' = [procs EXCEPT ![p] =
                         [@ EXCEPT !.pc = IF res.ok THEN "release" ELSE "release_err",
                                   !.loaded = db,
                                   !.game = res.game,
                                   !.isGameOver = res.isGameOver,
                                   !.sent = res.evs]]
          /\ Emit(res.evs)
    /\ UNCHANGED << db, lock, now, ticks, ops, statsPending, statsInc, conn >>
    /\ UNCHANGED << lvars, pvars >>

\* redis.del in withLock's finally after a rejected make_move
MakeMoveReleaseErr(p) ==
    /\ procs[p].op = "make_move" /\ procs[p].pc = "release_err"
    /\ lock' = FALSE
    /\ procs' = [procs EXCEPT ![p] = Idle]
    /\ Emit(<< >>)
    /\ UNCHANGED << db, now, ticks, ops, statsPending, statsInc, conn >>
    /\ UNCHANGED << lvars, pvars >>

\* variant of MoveBroadcast: clock_update is broadcast ahead of move_made
MoveBroadcastClockFirst(g, isGameOver) ==
    << Ev("clock_update", 0, "none", "none", "none"),
       Ev("move_made", Len(g.pgn), "none", "none", "none") >>
    \o (IF isGameOver
        THEN << GameOverEv(g.result,
                           IF g.resultReason = "none" THEN "checkmate"
                           ELSE g.resultReason) >>
        ELSE << >>)

\* the broadcast of make_move outside the lock: move_made, clock_update and,
\* when the game is over, game_over{reason: gameRef.resultReason || 'checkmate'}
MoveBroadcast(g, isGameOver) ==
    << Ev("move_made", Len(g.pgn), "none", "none", "none"),
       Ev("clock_update", 0, "none", "none", "none") >>
    \o (IF isGameOver
        THEN << GameOverEv(g.result,
                           IF g.resultReason = "none" THEN "checkmate"
                           ELSE g.resultReason) >>
        ELSE << >>)

\* redis.del, then the broadcast outside the lock, applyGameStats fired and
\* the persist scheduled with setImmediate
MakeMoveRelease(p) ==
    /\ procs[p].op = "make_move" /\ procs[p].pc = "release"
    /\ lock' = FALSE
    /\ LET evs == MoveBroadcast(procs[p].game, procs[p].isGameOver)
       IN /\ Emit(evs)
          /\ procs' = [procs EXCEPT ![p] =
                         [@ EXCEPT !.pc = "persist", !.sent = @ \o evs]]
    /\ statsPending' = IF procs[p].isGameOver THEN statsPending + 1 ELSE statsPending
    /\ UNCHANGED << db, now, ticks, ops, statsInc, conn >>
    /\ UNCHANGED << lvars, pvars >>

\* the fields make_move's moveDbUpdate names
MoveDbUpdateFields(user, isGameOver) ==
    {"pgn", "clock"}
    \cup {IF user = "W" THEN "qpWhite" ELSE "qpBlack"}
    \cup (IF isGameOver THEN {"status", "result", "resultReason"} ELSE {})

\* tryExecuteQueuedPremove(game, chess, gameId) up to its first await, on the
\* game object g make_move holds: [game, pm, evs, stats]
\*   pm: none (no premove queued) | rejected | timeout | ok
tryExecuteQueuedPremove(g, t) ==
    LET premoveColor == TurnColor(g.pgn)
        q == getPremove(g, premoveColor)
        h == Append(g.pgn, q.mv)
        r == ClockMakeMove(g.clock, Turn(g.pgn), t, t)
        rejected ==
            [game |-> SetSlot(g, premoveColor, NoPremove), pm |-> "rejected",
             evs |-> << Ev("premove_rejected", 0, premoveColor, "none", "none"),
                        Ev("premove_cleared", 0, premoveColor, "none", "rejected") >>,
             stats |-> 0]
        over == IsGameOver(h)
        g1 == [SetSlot(g, premoveColor, NoPremove) EXCEPT !.pgn = h, !.clock = r.clock]
        g2 == IF ~over THEN g1
              ELSE IF IsCheckmate(h)
              THEN [g1 EXCEPT !.status = "completed",
                              !.result = IF Turn(h) = "w" THEN "black" ELSE "white",
                              !.resultReason = "checkmate"]
              ELSE [g1 EXCEPT !.status = "completed", !.result = "draw",
                              !.resultReason = IF IsStalemate(h) THEN "stalemate"
                                               ELSE "draw"]
    IN IF q = NoPremove
       THEN [game |-> g, pm |-> "none", evs |-> << >>, stats |-> 0]
       ELSE IF ~Legal(g.pgn, q.mv) THEN rejected
       ELSE IF r.err # "none" THEN rejected
       ELSE IF r.timeout
       THEN [game |-> [g EXCEPT !.status = "completed", !.result = r.winner,
                                !.clock = r.clock, !.pgn = h,
                                !.qpWhite = NoPremove, !.qpBlack = NoPremove],
             pm |-> "timeout",
             evs |-> << GameOverEv(r.winner, "timeout"),
                        Ev("clock_update", 0, "none", "none", "none") >>,
             stats |-> 0]
       ELSE [game |-> g2, pm |-> "ok",
             evs |-> << Ev("move_made", Len(h), premoveColor, "none", "none"),
                        Ev("clock_update", 0, "none", "none", "none"),
                        Ev("premove_cleared", 0, premoveColor, "none", "executed") >>
                     \o (IF g2.status = "completed"
                         THEN << GameOverEv(g2.result,
                                            IF IsCheckmate(h) THEN "checkmate" ELSE "draw") >>
                         ELSE << >>),
             stats |-> IF g2.status = "completed" THEN 1 ELSE 0]

\* variant of PremoveDbUpdateFields: the rejected branch writes nothing
PremoveDbUpdateFieldsKeepRejected(pm, g, premoveColor) ==
    LET slot == IF premoveColor = "white" THEN "qpWhite" ELSE "qpBlack"
    IN IF pm = "rejected" THEN {}
       ELSE IF pm = "timeout"
       THEN {"status", "result", "clock", "pgn", "qpWhite", "qpBlack"}
       ELSE {"pgn", "clock", slot}
            \cup (IF g.status = "completed"
                  THEN {"status", "result", "resultReason"} ELSE {})

\* the fields tryExecuteQueuedPremove's updateOne names
PremoveDbUpdateFields(pm, g, premoveColor) ==
    LET slot == IF premoveColor = "white" THEN "qpWhite" ELSE "qpBlack"
    IN IF pm = "rejected" THEN {slot}
       ELSE IF pm = "timeout"
       THEN {"status", "result", "clock", "pgn", "qpWhite", "qpBlack"}
       ELSE {"pgn", "clock", slot}
            \cup (IF g.status = "completed"
                  THEN {"status", "result", "resultReason"} ELSE {})

\* the setImmediate callback of make_move: Game.updateOne with moveDbUpdate,
\* then tryExecuteQueuedPremove up to its own updateOne
MakeMovePersist(p) ==
    /\ procs[p].op = "make_move" /\ procs[p].pc = "persist"
    /\ db' = Patch(db, procs[p].game,
                   MoveDbUpdateFields(procs[p].user, procs[p].isGameOver))
    /\ IF procs[p].isGameOver
       THEN /\ procs' = [procs EXCEPT ![p] = Idle]
            /\ Emit(<< >>)
            /\ UNCHANGED statsPending
       ELSE LET x == tryExecuteQueuedPremove(procs[p].game, now)
            IN /\ procs' = [procs EXCEPT ![p] =
                              IF x.pm = "none" THEN Idle
                              ELSE [@ EXCEPT !.pc = "pm_persist", !.pm = x.pm,
                                             !.loaded = procs[p].game,
                                             !.game = x.game,
                                             !.sent = @ \o x.evs]]
               /\ Emit(x.evs)
               /\ statsPending' = statsPending + x.stats
    /\ UNCHANGED << lock, now, ticks, ops, statsInc, conn >>
    /\ UNCHANGED << lvars, pvars >>

\* the updateOne that ends tryExecuteQueuedPremove (and, after a timeout,
\* applyGameStats fired behind it)
PremovePersist(p) ==
    /\ procs[p].op = "make_move" /\ procs[p].pc = "pm_persist"
    /\ db' = Patch(db, procs[p].game,
                   PremoveDbUpdateFields(procs[p].pm, procs[p].game,
                                         TurnColor(procs[p].loaded.pgn)))
    /\ statsPending' = IF procs[p].pm = "timeout" THEN statsPending + 1
                       ELSE statsPending
    /\ procs' = [procs EXCEPT ![p] = Idle]
    /\ Emit(<< >>)
    /\ UNCHANGED << lock, now, ticks, ops, statsInc, conn >>
    /\ UNCHANGED << lvars, pvars >>

\* ------------------------------------------------------- applyGameStats
\* StatsService.applyGameStats: findOneAndUpdate({statsApplied: {$ne: true}},
\* {$set: {statsApplied: true}}, {new: true}) and the counter increments for
\* the result the returned document carries: [db, inc]
applyGameStats(stored) ==
    IF stored.statsApplied
    THEN [db |-> stored, inc |-> 0]
    ELSE [db |-> [stored EXCEPT !.statsApplied = TRUE],
          inc |-> IF stored.result \in {"white", "black", "draw"} THEN 1 ELSE 0]

\* an applyGameStats call that a handler fired without awaiting it
StatsRun ==
    /\ statsPending > 0
    /\ statsPending' = statsPending - 1
    /\ db' = applyGameStats(db).db
    /\ statsInc' = statsInc + applyGameStats(db).inc
    /\ Emit(<< >>)
    /\ UNCHANGED << lock, procs, now, ticks, ops, conn >>
    /\ UNCHANGED << lvars, pvars >>

\* ----------------------------------------------------------- set_premove
\* socket.on('set_premove'): the pre-lock part and withLock's SET NX PX
SetPremoveBegin(p, user, move) ==
    /\ CanStart(p)
    /\ lock = FALSE
    /\ lock' = TRUE
    /\ procs' = [procs EXCEPT ![p] =
                   [Begin(p, "set_premove", "locked", user) EXCEPT !.move = move]]
    /\ ops' = ops + 1
    /\ Emit(<< >>)
    /\ UNCHANGED << db, now, ticks, statsPending, statsInc, conn >>
    /\ UNCHANGED << lvars, pvars >>

\* the checks of set_premove's locked section on the loaded game g
SetPremoveAccepts(g, user) ==
    /\ g.status = "ongoing"
    /\ getPlayerColor(user) # "none"
    /\ TurnColor(g.pgn) # getPlayerColor(user)

\* Game.findById inside the lock and the locked section up to redis.del
SetPremoveInLock(p) ==
    /\ procs[p].op = "set_premove" /\ procs[p].pc = "locked"
    /\ LET u == procs[p].user
           okay == SetPremoveAccepts(db, u)
           queuedData == [mv |-> procs[p].move, setAt |-> now,
                          sourceMoveNo |-> Len(db.pgn)]
       IN /\ procs' = [procs EXCEPT ![p] =
                 IF okay
                 THEN [@ EXCEPT !.pc = "release", !.loaded = db,
                                !.game = SetSlot(db, getPlayerColor(u), queuedData)]
                 ELSE [@ EXCEPT !.pc = "release_err"]]
          /\ Emit(IF okay THEN << >>
                  ELSE IF db.status = "ongoing" /\ getPlayerColor(u) = "none"
                  THEN << ErrorEv(u) >>
                  ELSE << Ev("premove_rejected", 0, getPlayerColor(u), "none", "none") >>)
    /\ UNCHANGED << db, lock, now, ticks, ops, statsPending, statsInc, conn >>
    /\ UNCHANGED << lvars, pvars >>

\* redis.del; premove_set broadcast outside the lock; persist scheduled
SetPremoveRelease(p) ==
    /\ procs[p].op = "set_premove" /\ procs[p].pc \in {"release", "release_err"}
    /\ lock' = FALSE
    /\ IF procs[p].pc = "release"
       THEN /\ procs' = [procs EXCEPT ![p] = [@ EXCEPT !.pc = "persist"]]
            /\ Emit(<< Ev("premove_set", 0, getPlayerColor(procs[p].user),
                          "none", "none") >>)
       ELSE /\ procs' = [procs EXCEPT ![p] = Idle]
            /\ Emit(<< >>)
    /\ UNCHANGED << db, now, ticks, ops, statsPending, statsInc, conn >>
    /\ UNCHANGED << lvars, pvars >>

\* the setImmediate callback: updateOne({$set: {queuedPremoves.<color>: data}})
SetPremovePersist(p) ==
    /\ procs[p].op = "set_premove" /\ procs[p].pc = "persist"
    /\ db' = Patch(db, procs[p].game,
                   {IF procs[p].user = "W" THEN "qpWhite" ELSE "qpBlack"})
    /\ procs' = [procs EXCEPT ![p] = Idle]
    /\ Emit(<< >>)
    /\ UNCHANGED << lock, now, ticks, ops, statsPending, statsInc, conn >>
    /\ UNCHANGED << lvars, pvars >>

\* -------------------------------------------------------- cancel_premove
\* socket.on('cancel_premove'): withLock's SET NX PX
CancelPremoveBegin(p, user) ==
    /\ CanStart(p)
    /\ lock = FALSE
    /\ lock' = TRUE
    /\ procs' = [procs EXCEPT ![p] = Begin(p, "cancel_premove", "locked", user)]
    /\ ops' = ops + 1
    /\ Emit(<< >>)
    /\ UNCHANGED << db, now, ticks, statsPending, statsInc, conn >>
    /\ UNCHANGED << lvars, pvars >>

\* Game.findById inside the lock, up to game.save()
CancelPremoveInLock(p) ==
    /\ procs[p].op = "cancel_premove" /\ procs[p].pc = "locked"
    /\ LET u == procs[p].user
       IN IF getPlayerColor(u) = "none"
          THEN /\ procs' = [procs EXCEPT ![p] = [@ EXCEPT !.pc = "release"]]
               /\ Emit(<< ErrorEv(u) >>)
          ELSE /\ procs' = [procs EXCEPT ![p] =
                      [@ EXCEPT !.pc = "save", !.loaded = db,
                                !.game = SetSlot(db, getPlayerColor(u), NoPremove)]]
               /\ Emit(<< >>)
    /\ UNCHANGED << db, lock, now, ticks, ops, statsPending, statsInc, conn >>
    /\ UNCHANGED << lvars, pvars >>

\* game.save(), then premove_cleared to the room and to the caller
CancelPremoveSave(p) ==
    /\ procs[p].op = "cancel_premove" /\ procs[p].pc = "save"
    /\ db' = Save(db, procs[p].loaded, procs[p].game)
    /\ procs' = [procs EXCEPT ![p] = [@ EXCEPT !.pc = "release"]]
    /\ Emit(<< Ev("premove_cleared", 0, getPlayerColor(procs[p].user), "none", "cancelled"),
               Ev("premove_cleared", 0, getPlayerColor(procs[p].user), "none", "cancelled") >>)
    /\ UNCHANGED << lock, now, ticks, ops, statsPending, statsInc, conn >>
    /\ UNCHANGED << lvars, pvars >>

\* redis.del in withLock's finally
CancelPremoveRelease(p) ==
    /\ procs[p].op = "cancel_premove" /\ procs[p].pc = "release"
    /\ lock' = FALSE
    /\ procs' = [procs EXCEPT ![p] = Idle]
    /\ Emit(<< >>)
    /\ UNCHANGED << db, now, ticks, ops, statsPending, statsInc, conn >>
    /\ UNCHANGED << lvars, pvars >>

\* ------------------------------------------- handlers that take no lock
\* Game.findById and the handler's checks; an accepted request goes on to
\* game.save() with the document doc, a rejected one emits error and ends
ReadStep(p, op, user, accepted, doc) ==
    /\ CanStart(p)
    /\ procs' = [procs EXCEPT ![p] =
                   IF accepted
                   THEN [Begin(p, op, "save", user) EXCEPT !.loaded = db, !.game = doc]
                   ELSE Idle]
    /\ ops' = ops + 1
    /\ Emit(IF accepted THEN << >> ELSE << ErrorEv(user) >>)
    /\ UNCHANGED << db, lock, now, ticks, statsPending, statsInc, conn >>
    /\ UNCHANGED << lvars, pvars >>

\* game.save() and the code behind it: events evs, applyGameStats fired or not
SaveStep(p, op, evs, stats) ==
    /\ procs[p].op = op /\ procs[p].pc = "save"
    /\ db' = Save(db, procs[p].loaded, procs[p].game)
    /\ procs' = [procs EXCEPT ![p] = Idle]
    /\ statsPending' = statsPending + stats
    /\ Emit(evs)
    /\ UNCHANGED << lock, now, ticks, ops, statsInc, conn >>
    /\ UNCHANGED << lvars, pvars >>

\* resign_game
ResignAccepts(g, user) == user \in {"W", "B"} /\ g.status = "ongoing"

ResignedGame(g, user) ==
    [g EXCEPT !.status = "completed",
              !.result = IF user = "W" THEN "black" ELSE "white",
              !.resultReason = "resignation",
              !.qpWhite = NoPremove, !.qpBlack = NoPremove,
              !.pendingDrawOfferFrom = "none"]

ResignRead(p, user) ==
    ReadStep(p, "resign_game", user, ResignAccepts(db, user), ResignedGame(db, user))

ResignSave(p) ==
    SaveStep(p, "resign_game",
             << GameOverEv(procs[p].game.result, "resignation") >>, 1)

\* offer_draw
OfferDrawAccepts(g, user) ==
    /\ user \in {"W", "B"}
    /\ g.status = "ongoing"
    /\ (IF user = "W" THEN g.whiteDrawOffers ELSE g.blackDrawOffers) < 2
    /\ g.pendingDrawOfferFrom = "none"

DrawOfferedGame(g, user) ==
    IF user = "W"
    THEN [g EXCEPT !.pendingDrawOfferFrom = "white", !.whiteDrawOffers = @ + 1]
    ELSE [g EXCEPT !.pendingDrawOfferFrom = "black", !.blackDrawOffers = @ + 1]

OfferDrawRead(p, user) ==
    ReadStep(p, "offer_draw", user, OfferDrawAccepts(db, user), DrawOfferedGame(db, user))

OfferDrawSave(p) ==
    SaveStep(p, "offer_draw",
             << Ev("draw_offered", 0, getPlayerColor(procs[p].user), "none", "none"),
                Ev("draw_offered", 0, getPlayerColor(procs[p].user), "none", "none") >>, 0)

\* accept_draw
AcceptDrawAccepts(g, user) ==
    /\ user \in {"W", "B"}
    /\ g.status = "ongoing"
    /\ g.pendingDrawOfferFrom # "none"
    /\ g.pendingDrawOfferFrom # getPlayerColor(user)

DrawAgreedGame(g) ==
    [g EXCEPT !.status = "completed", !.result = "draw",
              !.resultReason = "draw_agreed",
              !.qpWhite = NoPremove, !.qpBlack = NoPremove,
              !.pendingDrawOfferFrom = "none"]

AcceptDrawRead(p, user) ==
    ReadStep(p, "accept_draw", user, AcceptDrawAccepts(db, user), DrawAgreedGame(db))

AcceptDrawSave(p) ==
    SaveStep(p, "accept_draw", << GameOverEv("draw", "draw_agreed") >>, 1)

\* reject_draw
RejectDrawAccepts(g, user) ==
    /\ user \in {"W", "B"}
    /\ g.status = "ongoing"
    /\ g.pendingDrawOfferFrom = Other(getPlayerColor(user))

RejectDrawRead(p, user) ==
    ReadStep(p, "reject_draw", user, RejectDrawAccepts(db, user),
             [db EXCEPT !.pendingDrawOfferFrom = "none"])

RejectDrawSave(p) ==
    SaveStep(p, "reject_draw",
             << Ev("draw_rejected", 0, getPlayerColor(procs[p].user), "none", "none") >>, 0)

\* cancel_game
CancelGameAccepts(g, user) ==
    /\ user \in {"W", "B"}
    /\ g.status = "ongoing"
    /\ Len(g.pgn) < 2

CancelledGame(g) ==
    [g EXCEPT !.status = "completed", !.result = "aborted",
              !.resultReason = "cancelled_due_to_first_move_timeout",
              !.qpWhite = NoPremove, !.qpBlack = NoPremove]

CancelGameRead(p, user) ==
    ReadStep(p, "cancel_game", user, CancelGameAccepts(db, user), CancelledGame(db))

CancelGameSave(p) ==
    SaveStep(p, "cancel_game",
             << GameOverEv("aborted", "cancelled_due_to_first_move_timeout") >>, 0)

\* ------------------------------------------------------ TimeoutChecker
\* variant of WatchBranch: the clock checks come before the disconnect check
WatchBranchClockFirst(g, t) ==
    IF IsFirstMoveExpired(g.clock, t) THEN "w_first"
    ELSE IF g.clock.lastMoveAt # 0 /\ IsTimeout(g.clock, t) THEN "w_flag"
    ELSE IF g.disconnectDeadlineAt # 0 /\ t >= g.disconnectDeadlineAt
    THEN (IF g.disconnectedPlayerId # "none" THEN "w_sockets" ELSE "w_disc")
    ELSE "idle"

\* a loop of checkTimeouts that checks the disconnect deadline and no clock
WatchBranchDisconnectOnly(g, t) ==
    IF g.disconnectDeadlineAt # 0 /\ t >= g.disconnectDeadlineAt
    THEN (IF g.disconnectedPlayerId # "none" THEN "w_sockets" ELSE "w_disc")
    ELSE "idle"

\* the checks of one game in the loop of checkTimeouts at Date.now() = t:
\* 1) disconnect deadline, 2) first-move deadline, 3) regular timeout; the
\* step the pass continues with
WatchBranch(g, t) ==
    IF g.disconnectDeadlineAt # 0 /\ t >= g.disconnectDeadlineAt
    THEN (IF g.disconnectedPlayerId # "none" THEN "w_sockets" ELSE "w_disc")
    ELSE IF IsFirstMoveExpired(g.clock, t) THEN "w_first"
    ELSE IF g.clock.lastMoveAt # 0 /\ IsTimeout(g.clock, t) THEN "w_flag"
    ELSE "idle"

\* checkTimeouts(): Game.find({status: 'ongoing', ...}) and, for the game
\* found, the branch taken up to its first await
WatchPass(p) ==
    /\ db.status = "ongoing"
    /\ LET g == db
           times == GetCurrentTime(g.clock, now)
           pc == WatchBranch(g, now)
           winner == IF pc = "w_flag"
                     THEN (IF times.whiteTime <= 0 THEN "black" ELSE "white")
                     ELSE IF g.disconnectedPlayerId = "W" THEN "black" ELSE "white"
       IN procs' = [procs EXCEPT ![p] =
                      IF pc = "idle" THEN Idle
                      ELSE [Begin(p, "watch", pc, "none") EXCEPT
                              !.loaded = g, !.game = [g EXCEPT !.result = winner]]]
    /\ Emit(<< >>)
    /\ UNCHANGED << db, lock, now, ticks, statsPending, statsInc, conn >>
    /\ UNCHANGED << lvars, pvars >>

\* a pass of checkTimeouts, counted among the invocations of a behaviour
WatchFind(p) ==
    /\ CanStart(p)
    /\ WatchPass(p)
    /\ ops' = ops + 1

\* setInterval(() => this.checkTimeouts(), 100): a pass whenever the event
\* loop is free, however many invocations the behaviour has had
WatchInterval(p) ==
    /\ procs[p].op = "idle"
    /\ \A q \in Procs : q < p => procs[q].op # "idle"
    /\ WatchPass(p)
    /\ UNCHANGED ops

\* io.in(disconnectedPlayerId).fetchSockets() of the safety net
WatchSockets(p) ==
    /\ procs[p].op = "watch" /\ procs[p].pc = "w_sockets"
    /\ procs' = [procs EXCEPT ![p] =
                   [@ EXCEPT !.pc = IF conn[procs[p].loaded.disconnectedPlayerId] > 0
                                    THEN "w_clear" ELSE "w_disc"]]
    /\ Emit(<< >>)
    /\ UNCHANGED << db, lock, now, ticks, ops, statsPending, statsInc, conn >>
    /\ UNCHANGED << lvars, pvars >>

\* the safety net's updateOne({disconnectedPlayerId: X}) and opponent_reconnected
WatchClear(p) ==
    /\ procs[p].op = "watch" /\ procs[p].pc = "w_clear"
    /\ db' = IF db.disconnectedPlayerId = procs[p].loaded.disconnectedPlayerId
             THEN [db EXCEPT !.disconnectedPlayerId = "none", !.disconnectDeadlineAt = 0]
             ELSE db
    /\ procs' = [procs EXCEPT ![p] = Idle]
    /\ Emit(<< Ev("opponent_reconnected", 0, "none", "none", "none") >>)
    /\ UNCHANGED << lock, now, ticks, ops, statsPending, statsInc, conn >>
    /\ UNCHANGED << lvars, pvars >>

\* the terminal updateOne of handleTimeout / handleFirstMoveTimeout /
\* handleDisconnectTimeout: the stored document after it
WatchTerminalUpdate(stored, loaded, result, reason, disconnect) ==
    IF stored.status = "ongoing"
       /\ (disconnect => stored.disconnectedPlayerId = loaded.disconnectedPlayerId)
    THEN [stored EXCEPT
            !.status = "completed", !.result = result, !.resultReason = reason,
            !.qpWhite = NoPremove, !.qpBlack = NoPremove,
            !.disconnectedPlayerId = IF disconnect THEN "none" ELSE @,
            !.disconnectDeadlineAt = IF disconnect THEN 0 ELSE @]
    ELSE stored

\* handleDisconnectTimeout up to `await applyGameStats`
WatchDisc(p) ==
    /\ procs[p].op = "watch" /\ procs[p].pc = "w_disc"
    /\ db' = WatchTerminalUpdate(db, procs[p].loaded, procs[p].game.result,
                                 "disconnect_timeout", TRUE)
    /\ procs' = [procs EXCEPT ![p] =
                   IF db' # db
                   THEN [@ EXCEPT !.pc = "w_stats", !.move = "disconnect_timeout"]
                   ELSE Idle]
    /\ Emit(<< >>)
    /\ UNCHANGED << lock, now, ticks, ops, statsPending, statsInc, conn >>
    /\ UNCHANGED << lvars, pvars >>

\* handleFirstMoveTimeout
WatchFirst(p) ==
    /\ procs[p].op = "watch" /\ procs[p].pc = "w_first"
    /\ db' = WatchTerminalUpdate(db, procs[p].loaded, "aborted",
                                 "cancelled_due_to_first_move_timeout", FALSE)
    /\ procs' = [procs EXCEPT ![p] = Idle]
    /\ Emit(IF db' # db
            THEN << GameOverEv("aborted", "cancelled_due_to_first_move_timeout") >>
            ELSE << >>)
    /\ UNCHANGED << lock, now, ticks, ops, statsPending, statsInc, conn >>
    /\ UNCHANGED << lvars, pvars >>

\* handleTimeout up to `await applyGameStats`
WatchFlag(p) ==
    /\ procs[p].op = "watch" /\ procs[p].pc = "w_flag"
    /\ db' = WatchTerminalUpdate(db, procs[p].loaded, procs[p].game.result,
                                 "timeout", FALSE)
    /\ procs' = [procs EXCEPT ![p] =
                   IF db' # db THEN [@ EXCEPT !.pc = "w_stats", !.move = "timeout"]
                   ELSE Idle]
    /\ Emit(<< >>)
    /\ UNCHANGED << lock, now, ticks, ops, statsPending, statsInc, conn >>
    /\ UNCHANGED << lvars, pvars >>

\* the awaited applyGameStats and the game_over behind it
WatchStats(p) ==
    /\ procs[p].op = "watch" /\ procs[p].pc = "w_stats"
    /\ db' = applyGameStats(db).db
    /\ statsInc' = statsInc + applyGameStats(db).inc
    /\ procs' = [procs EXCEPT ![p] = Idle]
    /\ Emit(<< GameOverEv(procs[p].game.result, procs[p].move) >>)
    /\ UNCHANGED << lock, now, ticks, ops, statsPending, conn >>
    /\ UNCHANGED << lvars, pvars >>

\* ------------------------------------------------ disconnect and rejoin
\* socket 'disconnecting': the socket leaves; io.in(room).fetchSockets() is issued
DisconnectingBegin(p, user) ==
    /\ CanStart(p)
    /\ user \in {"W", "B"}
    /\ conn[user] > 0
    /\ conn' = [conn EXCEPT ![user] = @ - 1]
    /\ procs' = [procs EXCEPT ![p] = Begin(p, "disconnecting", "d_sockets", user)]
    /\ ops' = ops + 1
    /\ Emit(<< >>)
    /\ UNCHANGED << db, lock, now, ticks, statsPending, statsInc >>
    /\ UNCHANGED << lvars, pvars >>

\* fetchSockets answers: another socket of the user in the room, or none
DisconnectingSockets(p) ==
    /\ procs[p].op = "disconnecting" /\ procs[p].pc = "d_sockets"
    /\ procs' = [procs EXCEPT ![p] =
                   IF conn[procs[p].user] > 0 THEN Idle ELSE [@ EXCEPT !.pc = "d_find"]]
    /\ Emit(IF conn[procs[p].user] > 0
            THEN << Ev("opponent_disconnected", 0, "none", "none", "none") >>
            ELSE << >>)
    /\ UNCHANGED << db, lock, now, ticks, ops, statsPending, statsInc, conn >>
    /\ UNCHANGED << lvars, pvars >>

\* Game.findById(room) and the marker set on the loaded document
DisconnectingFind(p) ==
    /\ procs[p].op = "disconnecting" /\ procs[p].pc = "d_find"
    /\ procs' = [procs EXCEPT ![p] =
                   IF db.status = "ongoing"
                   THEN [@ EXCEPT !.pc = "d_save", !.loaded = db,
                                  !.game = [db EXCEPT
                                              !.disconnectedPlayerId = procs[p].user,
                                              !.disconnectDeadlineAt = now + DisconnectGraceMs]]
                   ELSE Idle]
    /\ Emit(IF db.status = "ongoing" THEN << >>
            ELSE << Ev("opponent_disconnected", 0, "none", "none", "none") >>)
    /\ UNCHANGED << db, lock, now, ticks, ops, statsPending, statsInc, conn >>
    /\ UNCHANGED << lvars, pvars >>

\* game.save() and opponent_disconnected{reconnectDeadlineAt}
DisconnectingSave(p) ==
    /\ procs[p].op = "disconnecting" /\ procs[p].pc = "d_save"
    /\ db' = Save(db, procs[p].loaded, procs[p].game)
    /\ procs' = [procs EXCEPT ![p] = Idle]
    /\ Emit(<< Ev("opponent_disconnected", 0, "none", "none", "grace") >>)
    /\ UNCHANGED << lock, now, ticks, ops, statsPending, statsInc, conn >>
    /\ UNCHANGED << lvars, pvars >>

\* a socket of the user connects and sends join_game: Game.findById, then
\* socket.join(gameId)
JoinGameBegin(p, user) ==
    /\ CanStart(p)
    /\ user \in {"W", "B"}
    /\ conn[user] < MaxConn
    /\ conn' = [conn EXCEPT ![user] = @ + 1]
    /\ procs' = [procs EXCEPT ![p] =
                   [Begin(p, "join_game", "j_clear", user) EXCEPT !.loaded = db, !.game = db]]
    /\ ops' = ops + 1
    /\ Emit(<< >>)
    /\ UNCHANGED << db, lock, now, ticks, statsPending, statsInc >>
    /\ UNCHANGED << lvars, pvars >>

\* updateOne({disconnectedPlayerId: userId, status: 'ongoing'}) clearing the
\* markers, opponent_reconnected when it modified, and the rest of join_game
JoinGameClear(p) ==
    /\ procs[p].op = "join_game" /\ procs[p].pc = "j_clear"
    /\ LET hit == db.disconnectedPlayerId = procs[p].user /\ db.status = "ongoing"
       IN /\ db' = IF hit
                   THEN [db EXCEPT !.disconnectedPlayerId = "none",
                                   !.disconnectDeadlineAt = 0]
                   ELSE db
          /\ Emit((IF hit THEN << Ev("opponent_reconnected", 0, "none", "none", "none") >>
                   ELSE << >>)
                  \o << Ev("game_state", 0, "none", "none", "none"),
                        Ev("clock_update", 0, "none", "none", "none") >>)
    /\ procs' = [procs EXCEPT ![p] = Idle]
    /\ UNCHANGED << lock, now, ticks, ops, statsPending, statsInc, conn >>
    /\ UNCHANGED << lvars, pvars >>

\* ------------------------------------------------------- the coordinator
Stamps == {0, now}

Next ==
    \/ Tick
    \/ StatsRun
    \/ \E p \in Procs :
        \/ \E u \in Users, m \in Moves, c \in Stamps : MakeMoveBegin(p, u, m, c)
        \/ MakeMoveInLock(p)
        \/ MakeMoveReleaseErr(p)
        \/ MakeMoveRelease(p)
        \/ MakeMovePersist(p)
        \/ PremovePersist(p)
        \/ \E u \in Users, m \in Moves : SetPremoveBegin(p, u, m)
        \/ SetPremoveInLock(p)
        \/ SetPremoveRelease(p)
        \/ SetPremovePersist(p)
        \/ \E u \in Users : CancelPremoveBegin(p, u)
        \/ CancelPremoveInLock(p)
        \/ CancelPremoveSave(p)
        \/ CancelPremoveRelease(p)
        \/ \E u \in Users : ResignRead(p, u)
        \/ ResignSave(p)
        \/ \E u \in Users : OfferDrawRead(p, u)
        \/ OfferDrawSave(p)
        \/ \E u \in Users : AcceptDrawRead(p, u)
        \/ AcceptDrawSave(p)
        \/ \E u \in Users : RejectDrawRead(p, u)
        \/ RejectDrawSave(p)
        \/ \E u \in Users : CancelGameRead(p, u)
        \/ CancelGameSave(p)
        \/ WatchFind(p)
        \/ WatchSockets(p)
        \/ WatchClear(p)
        \/ WatchDisc(p)
        \/ WatchFirst(p)
        \/ WatchFlag(p)
        \/ WatchStats(p)
        \/ \E u \in Users : DisconnectingBegin(p, u)
        \/ DisconnectingSockets(p)
        \/ DisconnectingFind(p)
        \/ DisconnectingSave(p)
        \/ \E u \in Users : JoinGameBegin(p, u)
        \/ JoinGameClear(p)

Spec == Init /\ [][Next]_vars

\* ------------------------------------------- disconnect, rejoin and watcher
\* the white player's last socket has left and the disconnecting handler has
\* stored the marker and the deadline; invocations are counted from here
WatchInit ==
    /\ clk = ClkNew(IncSeconds)
    /\ pq = PqNew
    /\ rm = RmNew
    /\ hy = HyNew
    /\ db = [NewGame(T0) EXCEPT !.disconnectedPlayerId = "W",
                                !.disconnectDeadlineAt = T0 + DisconnectGraceMs]
    /\ lock = FALSE
    /\ procs = [p \in Procs |-> Idle]
    /\ now = T0
    /\ ticks = 0
    /\ ops = 0
    /\ statsPending = 0
    /\ statsInc = 0
    /\ conn = [u \in Users |-> IF u = "B" THEN 1 ELSE 0]
    /\ out = << >>
    /\ gameOverCount = 0
    /\ lastMovePly = 0
    /\ episode = {}
    /\ premoveReq = [c \in Colors |-> "none"]
    /\ premovesQueued = 0
    /\ premovesExecuted = 0
    /\ mem = MemInit
    /\ red = RedInit

\* the timeout checker, the disconnecting handler and join_game on their own
WatchNext ==
    \/ Tick
    \/ \E p \in Procs :
        \/ WatchFind(p)
        \/ WatchSockets(p)
        \/ WatchClear(p)
        \/ WatchDisc(p)
        \/ WatchFirst(p)
        \/ WatchStats(p)
        \/ \E u \in Users : DisconnectingBegin(p, u)
        \/ DisconnectingSockets(p)
        \/ DisconnectingFind(p)
        \/ DisconnectingSave(p)
        \/ \E u \in Users : JoinGameBegin(p, u)
        \/ JoinGameClear(p)

WatchSpec == WatchInit /\ [][WatchNext]_vars

\* ----------------------------------- a player drops, the watcher keeps going
\* both players are in the room of the game as created, or of the game after
\* white's first move at T0 (black's clock is running)
DropInit ==
    /\ clk = ClkNew(IncSeconds)
    /\ pq = PqNew
    /\ rm = RmNew
    /\ hy = HyNew
    /\ db \in { NewGame(T0),
                 [NewGame(T0) EXCEPT
                    !.pgn = << "a" >>,
                    !.clock = ClockMakeMove(NewClock(T0), "w", 0, T0).clock] }
    /\ lock = FALSE
    /\ procs = [p \in Procs |-> Idle]
    /\ now = T0
    /\ ticks = 0
    /\ ops = 0
    /\ statsPending = 0
    /\ statsInc = 0
    /\ conn = [u \in Users |-> IF u = "X" THEN 0 ELSE 1]
    /\ out = << >>
    /\ gameOverCount = 0
    /\ lastMovePly = 0
    /\ episode = {}
    /\ premoveReq = [c \in Colors |-> "none"]
    /\ premovesQueued = 0
    /\ premovesExecuted = 0
    /\ mem = MemInit
    /\ red = RedInit

\* time passes between handler invocations, until the first-move deadline
\* and both clocks of the game have run out
TimePasses ==
    /\ now <= T0 + FirstMoveMs + 2 * BaseMinutes * 60 * 1000
    /\ \A p \in Procs : procs[p].op = "idle"
    /\ now' = now + TickMs
    /\ Emit(<< >>)
    /\ UNCHANGED << db, lock, procs, ticks, ops, statsPending, statsInc, conn >>
    /\ UNCHANGED << lvars, pvars >>

\* sockets leave and join, time passes and the interval of the
\* TimeoutChecker fires
DropNext ==
    \/ TimePasses
    \/ \E p \in Procs :
        \/ WatchInterval(p)
        \/ WatchSockets(p)
        \/ WatchClear(p)
        \/ WatchDisc(p)
        \/ WatchFirst(p)
        \/ WatchFlag(p)
        \/ WatchStats(p)
        \/ \E u \in Users : DisconnectingBegin(p, u)
        \/ DisconnectingSockets(p)
        \/ DisconnectingFind(p)
        \/ DisconnectingSave(p)
        \/ \E u \in Users : JoinGameBegin(p, u)
        \/ JoinGameClear(p)

\* the event loop runs every continuation that is ready, the interval keeps
\* firing and time passes; nothing obliges a socket to leave or to join
DropSpec ==
    /\ DropInit /\ [][DropNext]_vars
    /\ WF_vars(TimePasses)
    /\ WF_vars(\E p \in Procs : WatchInterval(p))
    /\ \A p \in Procs :
         WF_vars(\/ WatchSockets(p) \/ WatchClear(p) \/ WatchDisc(p)
                 \/ WatchFirst(p) \/ WatchFlag(p) \/ WatchStats(p)
                 \/ DisconnectingSockets(p) \/ DisconnectingFind(p)
                 \/ DisconnectingSave(p) \/ JoinGameClear(p))

\* ------------------------------------------- withLock, in-memory manager
\* withLock up to `await pending`: read _locks, store the own promise
MemCall(c) ==
    /\ red = RedInit      \* a deployment runs one of the two managers
    /\ mem.calls[c].pc = "idle"
    /\ mem' = [mem EXCEPT !.tail = c,
                          !.calls[c].pc = "waiting",
                          !.calls[c].pending = mem.tail]
    /\ UNCHANGED << cvars, red, pvars >>

\* `await pending` returns (no entry was stored, or the stored promise is
\* resolved) and fn starts
MemEnter(c) ==
    /\ mem.calls[c].pc = "waiting"
    /\ IF mem.calls[c].pending = 0 THEN TRUE
       ELSE mem.calls[mem.calls[c].pending].resolved
    /\ mem' = [mem EXCEPT !.calls[c].pc = "running"]
    /\ UNCHANGED << cvars, red, pvars >>

\* how the function passed to withLock settles
FnOutcomes == {"ok", "threw"}

\* a withLock that never calls resolve()
MemSettleNeverResolves(call, r) ==
    [call EXCEPT !.pc = "done", !.resolved = FALSE, !.fn = r, !.outcome = r]

\* a withLock whose finally block is skipped when fn throws
MemSettleNoFinally(call, r) ==
    [call EXCEPT !.pc = "done", !.resolved = (r = "ok"), !.fn = r, !.outcome = r]

\* try { return await fn() } finally { resolve() }: fn's result or error is
\* the call's, and the promise is resolved either way
MemSettle(call, r) ==
    [call EXCEPT !.pc = "done", !.resolved = TRUE, !.fn = r, !.outcome = r]

\* fn settles
MemExit(c) ==
    /\ mem.calls[c].pc = "running"
    /\ \E r \in FnOutcomes :
         mem' = [mem EXCEPT !.calls[c] = MemSettle(@, r)]
    /\ UNCHANGED << cvars, red, pvars >>

\* clearAll(gameId): this._locks.delete(gameId)
MemClearAll ==
    /\ mem.tail # 0
    /\ mem' = [mem EXCEPT !.tail = 0]
    /\ UNCHANGED << cvars, red, pvars >>

\* ------------------------------------------------ withLock, Redis manager
RedisCall(c) ==
    /\ mem = MemInit      \* a deployment runs one of the two managers
    /\ red.calls[c].pc = "idle"
    /\ red' = [red EXCEPT !.calls[c].pc = "trying"]
    /\ UNCHANGED << cvars, mem, pvars >>

\* redis.set(lockKey, 'locked', 'NX', 'PX', 5000)
RedisSet(c) ==
    /\ red.calls[c].pc = "trying"
    /\ IF ~red.key \/ red.time >= red.expiresAt
       THEN red' = [red EXCEPT !.key = TRUE,
                               !.expiresAt = red.time + LockTtlMs,
                               !.calls[c] = RedInit.calls[c],
                               !.calls[c].pc = "running"]
       ELSE red' = [red EXCEPT !.calls[c].pc = "sleeping",
                               !.calls[c].attempts = @ + 1,
                               !.calls[c].wakeAt = red.time + RetryDelayMs]
    /\ UNCHANGED << cvars, mem, pvars >>

\* setTimeout(r, retryDelay) fires: next attempt, or the loop is over
RedisWake(c) ==
    /\ red.calls[c].pc = "sleeping"
    /\ red.time >= red.calls[c].wakeAt
    /\ red' = IF red.calls[c].attempts >= RetryLimit
              THEN [red EXCEPT !.calls[c] = RedInit.calls[c],
                               !.calls[c].pc = "failed",
                               !.calls[c].outcome = "threw"]
              ELSE [red EXCEPT !.calls[c].pc = "trying"]
    /\ UNCHANGED << cvars, mem, pvars >>

\* try { return await fn() } finally { await redis.del(lockKey) }
RedisSettle(r, c, o) ==
    [r EXCEPT !.key = FALSE, !.expiresAt = 0, !.calls[c].pc = "done",
              !.calls[c].fn = o, !.calls[c].outcome = o]

\* fn settles
RedisExit(c) ==
    /\ red.calls[c].pc = "running"
    /\ \E o \in FnOutcomes : red' = RedisSettle(red, c, o)
    /\ UNCHANGED << cvars, mem, pvars >>

\* time passes for the Redis lock
RedisTick(d) ==
    /\ red.time + d <= MaxLockMs
    /\ \E c \in Calls : red.calls[c].pc \in {"sleeping", "running"}
    /\ red' = [red EXCEPT !.time = @ + d]
    /\ UNCHANGED << cvars, mem, pvars >>

LockNext ==
    \/ \E c \in Calls :
        \/ MemCall(c)
        \/ MemEnter(c)
        \/ MemExit(c)
        \/ RedisCall(c)
        \/ RedisSet(c)
        \/ RedisWake(c)
        \/ RedisExit(c)
    \/ MemClearAll
    \/ \E d \in {RetryDelayMs, LockTtlMs} : RedisTick(d)

LockSpec == Init /\ [][LockNext]_vars

\* the timer of setTimeout(r, retryDelay) of a sleeping call expires
RedisTimer(c) ==
    /\ red.calls[c].pc = "sleeping"
    /\ red.time < red.calls[c].wakeAt
    /\ red' = [red EXCEPT !.time = red.calls[c].wakeAt]
    /\ UNCHANGED << cvars, mem, pvars >>

\* calls are made and go on; time passes by the timers of sleeping calls, or
\* by the lifetime of the key while a function runs
LockLiveNext ==
    \/ \E c \in Calls :
        \/ MemCall(c)
        \/ MemEnter(c)
        \/ MemExit(c)
        \/ RedisCall(c)
        \/ RedisSet(c)
        \/ RedisTimer(c)
        \/ RedisWake(c)
        \/ RedisExit(c)
    \/ MemClearAll
    \/ RedisTick(LockTtlMs)

\* the event loop resumes every call whose await has settled, timers expire,
\* Redis answers, and the function passed to withLock settles; nothing
\* obliges a call to be made
LockLiveSpec ==
    /\ Init /\ [][LockLiveNext]_vars
    /\ \A c \in Calls :
         /\ WF_vars(MemEnter(c))
         /\ WF_vars(MemExit(c))
         /\ WF_vars(RedisSet(c))
         /\ WF_vars(RedisTimer(c))
         /\ WF_vars(RedisWake(c))
         /\ WF_vars(RedisExit(c))

\* ------------------------------------------------ the clock on its own
\* wall-clock advances between two makeMove calls
ClockAdvances == {100, 600, TickMs}

\* clientTimestamp arguments at Date.now() = t: absent, negative, now, a
\* short and a long network delay, the future
ClientStamps(t) == {0, -1, t, t - 100, t - 600, t + 50}

ClockInit ==
    /\ clk \in {ClkNew(s) : s \in 0 .. MaxIncSeconds}
    /\ pq = PqNew
    /\ rm = RmNew
    /\ hy = HyNew
    /\ db = NewGame(T0)
    /\ lock = FALSE
    /\ procs = [p \in Procs |-> Idle]
    /\ now = T0
    /\ ticks = 0
    /\ ops = 0
    /\ statsPending = 0
    /\ statsInc = 0
    /\ conn = [u \in Users |-> IF u = "X" THEN 0 ELSE 1]
    /\ out = << >>
    /\ gameOverCount = 0
    /\ lastMovePly = 0
    /\ episode = {}
    /\ premoveReq = [c \in Colors |-> "none"]
    /\ premovesQueued = 0
    /\ premovesExecuted = 0
    /\ mem = MemInit
    /\ red = RedInit

\* Date.now() advances by d
ClockWait(d) ==
    /\ ~clk.waited
    /\ clk.calls < MaxClockCalls
    /\ clk' = [clk EXCEPT !.time = @ + d, !.waited = TRUE]
    /\ UNCHANGED << cvars, lvars, pq, rm, hy >>

\* clock.makeMove(color, clientTimestamp) on the object, which the call
\* mutates; a thrown Error leaves it as it was
ClockApplyMove(color, clientTimestamp) ==
    /\ clk.calls < MaxClockCalls
    /\ ~clk.flagged
    /\ LET r == ClockMakeMove(clk.clock, color, clientTimestamp, clk.time)
           regular == r.err = "none" /\ clk.clock.activeColor # "none"
           comp == LagCompensation(clientTimestamp, clk.time)
       IN clk' = [clk EXCEPT
                    !.clock = r.clock,
                    !.calls = @ + 1,
                    !.waited = FALSE,
                    !.before = clk.clock,
                    !.color = color,
                    !.cts = clientTimestamp,
                    !.err = r.err,
                    !.timeout = r.timeout,
                    !.winner = r.winner,
                    !.comp = comp,
                    !.flagged = r.timeout,
                    !.elapsedSum = IF regular THEN @ + (clk.time - clk.clock.lastMoveAt)
                                   ELSE @,
                    !.compSum = IF regular THEN @ + comp ELSE @]
    /\ UNCHANGED << cvars, lvars, pq, rm, hy >>

ClockNext ==
    \/ \E d \in ClockAdvances : ClockWait(d)
    \/ \E color \in {"w", "b"}, c \in ClientStamps(clk.time) : ClockApplyMove(color, c)

ClockSpec == ClockInit /\ [][ClockNext]_vars

\* -------------------------------------- the in-memory store on its own
\* premove arguments of setPremove
SetInputs ==
    { [setAt |-> 0, sourceMoveNo |-> "undefined",
        from |-> "e2", to |-> "e4", promotion |-> "undefined"],
      [setAt |-> 7, sourceMoveNo |-> "0",
        from |-> "e7", to |-> "e8", promotion |-> "q"],
      [setAt |-> 9, sourceMoveNo |-> "1",
        from |-> "d7", to |-> "d5", promotion |-> "null"] }

\* one colour of a stored queuedPremoves object: null, an object without
\* from and to, complete premoves
StoredSlots ==
    { Null,
      << [setAt |-> 0, sourceMoveNo |-> "undefined",
        from |-> "null", to |-> "null", promotion |-> "null"] >>,
      << [setAt |-> 1234, sourceMoveNo |-> "0",
        from |-> "e2", to |-> "e4", promotion |-> "null"] >>,
      << [setAt |-> 5678, sourceMoveNo |-> "null",
        from |-> "a7", to |-> "a8", promotion |-> "q"] >> }

\* queuedPremoves arguments of rehydrate
RehydrateInputs ==
    {Null} \cup { << [white |-> w, black |-> b] >> : w, b \in StoredSlots }

\* a call on the store: what it was given, the store before and after
QueueCall(op, g, color, arg, stored, after) ==
    /\ pq.calls < MaxQueueCalls
    /\ pq' = [color |-> color, game |-> g, stored |-> stored,
              calls |-> pq.calls + 1, op |-> op, store |-> after,
              before |-> pq.store, arg |-> arg]
    /\ UNCHANGED << cvars, lvars, clk, rm, hy >>

QSetPremove(g, color, p) ==
    QueueCall("setPremove", g, color, << p >>, Null,
              SetPremove(pq.store, g, color, p, now))

QClearPremove(g, color) ==
    QueueCall("clearPremove", g, color, Null, Null,
              ClearPremove(pq.store, g, color))

QClearAll(g) ==
    QueueCall("clearAll", g, "white", Null, Null, ClearAll(pq.store, g))

QRehydrate(g, q) ==
    QueueCall("rehydrate", g, "white", Null, q, Rehydrate(pq.store, g, q))

QueueNext ==
    \/ \E g \in QueueGames, color \in Colors, p \in SetInputs :
            QSetPremove(g, color, p)
    \/ \E g \in QueueGames, color \in Colors : QClearPremove(g, color)
    \/ \E g \in QueueGames : QClearAll(g)
    \/ \E g \in QueueGames, q \in RehydrateInputs : QRehydrate(g, q)

QueueSpec == Init /\ [][QueueNext]_vars

\* ----------------------------------------------------- rematch handlers
\* game.save() of a rematch handler: the paths it changed on its copy
RematchSave(stored, loaded, doc) ==
    [stored EXCEPT
       !.rematchOfferFrom = IF doc.rematchOfferFrom # loaded.rematchOfferFrom
                            THEN doc.rematchOfferFrom ELSE @,
       !.rematchDeclined = IF doc.rematchDeclined # loaded.rematchDeclined
                           THEN doc.rematchDeclined ELSE @,
       !.nextGameId = IF doc.nextGameId # loaded.nextGameId
                      THEN doc.nextGameId ELSE @]

\* Game.findById and the checks of a rematch handler; when they pass the
\* handler goes on to `next` with its copy of the game
RematchRead(p, user, accepted, next) ==
    /\ rm.procs[p].pc = "idle"
    /\ rm.started < MaxRematchOps
    /\ rm' = [rm EXCEPT !.started = @ + 1,
                        !.procs[p] = IF accepted
                                     THEN [RmIdle EXCEPT !.pc = next, !.user = user,
                                                         !.loaded = rm.game,
                                                         !.doc = rm.game]
                                     ELSE RmIdle]
    /\ UNCHANGED << cvars, lvars, clk, pq, hy >>

\* offer_rematch: Game.findById and the checks (the game is completed)
OfferRematchRead(p, user) ==
    RematchRead(p, user,
                /\ user \in {"W", "B"}
                /\ ~rm.game.rematchDeclined
                /\ rm.game.rematchOfferFrom = "none"
                /\ rm.game.nextGameId = 0,
                "o_save")

\* game.rematchOfferFrom = playerColor; await game.save()
OfferRematchSave(p) ==
    /\ rm.procs[p].pc = "o_save"
    /\ rm' = [rm EXCEPT
                !.game = RematchSave(@, rm.procs[p].loaded,
                           [rm.procs[p].doc EXCEPT
                              !.rematchOfferFrom = getPlayerColor(rm.procs[p].user)]),
                !.procs[p] = RmIdle]
    /\ UNCHANGED << cvars, lvars, clk, pq, hy >>

\* accept_rematch: Game.findById and the checks (the game is completed)
AcceptRematchRead(p, user) ==
    RematchRead(p, user,
                /\ user \in {"W", "B"}
                /\ rm.game.rematchOfferFrom # "none"
                /\ rm.game.rematchOfferFrom # getPlayerColor(user)
                /\ rm.game.nextGameId = 0,
                "a_create")

\* the new game of accept_rematch: old white plays black, old black white
RematchGame == [whitePlayer |-> "B", blackPlayer |-> "W"]

\* await newGame.save()
AcceptRematchCreate(p) ==
    /\ rm.procs[p].pc = "a_create"
    /\ rm' = [rm EXCEPT !.created = Append(@, RematchGame),
                        !.procs[p].pc = "a_save",
                        !.procs[p].newGameId = Len(rm.created) + 1]
    /\ UNCHANGED << cvars, lvars, clk, pq, hy >>

\* game.nextGameId = newGame._id; game.rematchOfferFrom = null;
\* await game.save(); rematch_accepted
AcceptRematchSave(p) ==
    /\ rm.procs[p].pc = "a_save"
    /\ rm' = [rm EXCEPT
                !.game = RematchSave(@, rm.procs[p].loaded,
                           [rm.procs[p].doc EXCEPT
                              !.nextGameId = rm.procs[p].newGameId,
                              !.rematchOfferFrom = "none"]),
                !.accepted = Append(@, rm.procs[p].newGameId),
                !.procs[p] = RmIdle]
    /\ UNCHANGED << cvars, lvars, clk, pq, hy >>

\* reject_rematch: Game.findById and the checks (the game is completed)
RejectRematchRead(p, user) ==
    RematchRead(p, user,
                /\ user \in {"W", "B"}
                /\ rm.game.rematchOfferFrom = Other(getPlayerColor(user)),
                "r_save")

\* game.rematchDeclined = true; game.rematchOfferFrom = null; await game.save()
RejectRematchSave(p) ==
    /\ rm.procs[p].pc = "r_save"
    /\ rm' = [rm EXCEPT
                !.game = RematchSave(@, rm.procs[p].loaded,
                           [rm.procs[p].doc EXCEPT !.rematchDeclined = TRUE,
                                                   !.rematchOfferFrom = "none"]),
                !.procs[p] = RmIdle]
    /\ UNCHANGED << cvars, lvars, clk, pq, hy >>

RematchNext ==
    \E p \in Procs :
        \/ \E u \in Users : OfferRematchRead(p, u)
        \/ OfferRematchSave(p)
        \/ \E u \in Users : AcceptRematchRead(p, u)
        \/ AcceptRematchCreate(p)
        \/ AcceptRematchSave(p)
        \/ \E u \in Users : RejectRematchRead(p, u)
        \/ RejectRematchSave(p)

RematchSpec == Init /\ [][RematchNext]_vars

\* ------------------------- handlers that queue premoves in memory (game g1)
\* a step of these handlers
HydrateStep(next) ==
    /\ hy' = next
    /\ UNCHANGED << cvars, lvars, clk, pq, rm >>

\* $set of queuedPremoves.<color>
StoredSlotSet(q, color, v) == << [q[1] EXCEPT ![color] = v] >>

\* make_move by the side to move, inside withLock, up to its awaited
\* Game.updateOne: a queued premove of the mover is overridden
MemMakeMove ==
    /\ hy.h.pc = "idle"
    /\ hy.moves < MaxHydrateMoves
    /\ HydrateStep([hy EXCEPT
         !.moves = @ + 1,
         !.store = ClearPremove(@, "g1", hy.turn),
         !.h = [HyIdle EXCEPT !.pc = "mm_write", !.color = hy.turn]])

\* the updateOne of make_move completes, then tryExecuteQueuedPremove up to
\* its own awaited updateOne: the premove of the side now to move is taken
\* from memory, played (legal) or rejected, and cleared in memory
MemMakeMoveWrite(legal) ==
    /\ hy.h.pc = "mm_write"
    /\ LET color == Other(hy.h.color)
           q == GetPremove(hy.store, "g1", color)
           written == [hy EXCEPT !.stored = StoredSlotSet(@, hy.h.color, Null),
                                 !.turn = color]
       IN HydrateStep(
            IF q = Null
            THEN [written EXCEPT !.h = HyIdle]
            ELSE [written EXCEPT
                    !.store = ClearPremove(@, "g1", color),
                    !.cleared = @ \cup {q[1].from},
                    !.executed = IF legal THEN Append(@, q[1].from) ELSE @,
                    !.h = [HyIdle EXCEPT !.pc = "pm_write", !.color = color,
                                         !.legal = legal]])

\* the awaited write of the handler inside withLock completes: the updateOne
\* of tryExecuteQueuedPremove (the slot is null; the pgn has the premove when
\* it was played), the game.save() of set_premove (the slot is the premove)
\* or the game.save() of cancel_premove (the slot is null)
MemPersist ==
    /\ hy.h.pc \in {"pm_write", "sp_save", "cp_save"}
    /\ HydrateStep([hy EXCEPT
         !.stored = StoredSlotSet(@, hy.h.color, hy.h.premove),
         !.turn = IF hy.h.legal THEN Other(hy.h.color) ELSE @,
         !.h = HyIdle])

\* set_premove by the side not to move, inside withLock, up to its awaited
\* game.save(): the premove is in memory; every set_premove of a behaviour
\* names a square no earlier one named, so that `from` tells premoves apart
MemSetPremove(sq) ==
    /\ hy.h.pc = "idle"
    /\ sq \notin hy.used
    /\ LET color == Other(hy.turn)
           p == [setAt |-> Cardinality(hy.used) + 1, sourceMoveNo |-> "0",
        from |-> sq, to |-> "a5", promotion |-> "undefined"]
       IN HydrateStep([hy EXCEPT
            !.used = @ \cup {sq},
            !.store = SetPremove(@, "g1", color, p, p.setAt),
            !.h = [HyIdle EXCEPT !.pc = "sp_save", !.color = color,
                                 !.premove = << [p EXCEPT !.promotion = "null"] >>]])

\* cancel_premove of a player, inside withLock, up to its awaited game.save()
MemCancelPremove(color) ==
    /\ hy.h.pc = "idle"
    /\ LET q == GetPremove(hy.store, "g1", color)
       IN /\ q # Null
          /\ HydrateStep([hy EXCEPT
               !.store = ClearPremove(@, "g1", color),
               !.cleared = @ \cup {q[1].from},
               !.h = [HyIdle EXCEPT !.pc = "cp_save", !.color = color]])

\* join_game: Game.findById
MemJoinGameLoad ==
    /\ hy.join.pc = "idle"
    /\ hy.joins < MaxHydrateJoins
    /\ HydrateStep([hy EXCEPT
         !.joins = @ + 1,
         !.join = [loaded |-> hy.stored, pc |-> "j_hydrate"]])

\* join_game after its awaits: premoveManager.rehydrate(gameId,
\* game.queuedPremoves) with the document it loaded
MemJoinGameRehydrate ==
    /\ hy.join.pc = "j_hydrate"
    /\ HydrateStep([hy EXCEPT
         !.store = Rehydrate(@, "g1", hy.join.loaded),
         !.join = [loaded |-> Null, pc |-> "idle"]])

HydrateNext ==
    \/ MemMakeMove
    \/ \E legal \in BOOLEAN : MemMakeMoveWrite(legal)
    \/ MemPersist
    \/ \E sq \in {"a7", "b7"} : MemSetPremove(sq)
    \/ \E color \in Colors : MemCancelPremove(color)
    \/ MemJoinGameLoad
    \/ MemJoinGameRehydrate

HydrateSpec == Init /\ [][HydrateNext]_vars

\* ================================================================ claims
IsPrefix(s, t) == Len(s) <= Len(t) /\ SubSeq(t, 1, Len(s)) = s

\* no handler invocation is in flight and no applyGameStats call is pending
Quiescent == statsPending = 0 /\ \A p \in Procs : procs[p].op = "idle"

\* C1: at most one game_over event is emitted in the whole life of the game,
\* whichever terminating operations run and however they interleave.
C1_AtMostOneGameOver == gameOverCount <= 1

\* C2: once status = completed is stored, no later write changes the stored
\* status, result or resultReason.
C2_CompletedIsFinal ==
    [][db.status = "completed" =>
         /\ db'.status = "completed"
         /\ db'.result = db.result
         /\ db'.resultReason = db.resultReason]_vars

\* C3: statsApplied changes only from false to true, and only while the
\* stored game is completed with result white, black or draw (never while the
\* result is unset, never for an aborted game).
C3_StatsAppliedOnlyWhenFinished ==
    [][db'.statsApplied # db.statsApplied =>
         /\ ~db.statsApplied
         /\ db.status = "completed"
         /\ db.result \in {"white", "black", "draw"}]_vars

\* C4: the players' win/loss/draw counters are never incremented twice, and
\* when everything fired for a game that ended white, black or draw has run,
\* they have been incremented once.
C4_StatsExactlyOnce ==
    /\ statsInc <= 1
    /\ (Quiescent /\ db.status = "completed" /\ db.result \in {"white", "black", "draw"}
          => statsInc = 1)

\* C5: a make_move that finds the game already completed, or whose caller is
\* not one of the two players, is rejected: its locked section never ends
\* with a move to broadcast and store.
C5_MakeMoveRejected ==
    \A p \in Procs :
        procs[p].op = "make_move" /\ procs[p].pc = "release"
            => /\ procs[p].loaded.status # "completed"
               /\ procs[p].user \in {"W", "B"}

\* C6: withLock is mutually exclusive per game: at no time are the functions
\* of two withLock calls on the same game running, for the in-memory lock
\* (clearAll included) and for the Redis lock (expiry included).
C6_MutualExclusion ==
    /\ Cardinality({c \in Calls : mem.calls[c].pc = "running"}) <= 1
    /\ Cardinality({c \in Calls : red.calls[c].pc = "running"}) <= 1

\* a coordinator operation has read the game and its write is still to come
BetweenReadAndWrite(p) ==
    \/ procs[p].op = "make_move" /\ procs[p].pc \in {"release", "persist", "pm_persist"}
    \/ procs[p].op = "set_premove" /\ procs[p].pc \in {"release", "persist"}
    \/ procs[p].op \in {"cancel_premove", "resign_game", "offer_draw", "accept_draw",
                        "reject_draw", "cancel_game"} /\ procs[p].pc = "save"

\* C7: no two coordinator operations on the game are at the same time between
\* their read of the game and their write.
C7_NoInterleavedReadWrite ==
    \A p, q \in Procs : p # q => ~(BetweenReadAndWrite(p) /\ BetweenReadAndWrite(q))

\* C8: move_made events reach the room in ply order: after move_made for a
\* ply has been emitted, no move_made for an earlier ply is emitted.
C8_MoveMadeInOrder == [][lastMovePly' >= lastMovePly]_vars

\* C9: every write to the stored history stores an extension of the history
\* stored before it.
C9_HistoryNeverRegresses == [][IsPrefix(db.pgn, db'.pgn)]_vars

\* C10: a queued premove is executed at most once: no more move_made events
\* of executed premoves are emitted than premoves were queued.
C10_PremoveExecutedOnce == premovesExecuted <= premovesQueued

\* the move_made, clock_update and premove_cleared{executed} events of a
\* sequence of events, as [ev, by] pairs
MoveEvents(evs) ==
    LET keep(e) == \/ e.ev \in {"move_made", "clock_update"}
                   \/ e.ev = "premove_cleared" /\ e.reason = "executed"
        kept == SelectSeq(evs, keep)
    IN [i \in DOMAIN kept |-> << kept[i].ev, kept[i].by, kept[i].ply >>]

\* a make_move invocation has executed the queued premove of the side to move
ExecutedPremove(p) ==
    procs[p].op = "make_move" /\ procs[p].pc = "pm_persist" /\ procs[p].pm = "ok"

\* C11: a make_move that commits a normal move of ply n and then executes the
\* opponent's queued premove has emitted, in this order: move_made (normal,
\* ply n), clock_update, move_made (premove, ply n+1), clock_update,
\* premove_cleared{executed}.
C11_PremoveBroadcastOrder ==
    \A p \in Procs :
        ExecutedPremove(p) =>
            LET n == Len(procs[p].loaded.pgn)
                c == TurnColor(procs[p].loaded.pgn)
            IN MoveEvents(procs[p].sent) =
                 << << "move_made", "none", n >>,
                    << "clock_update", "none", 0 >>,
                    << "move_made", c, n + 1 >>,
                    << "clock_update", "none", 0 >>,
                    << "premove_cleared", c, 0 >> >>

C11_Witness == \E p \in Procs : ExecutedPremove(p)

\* a make_move invocation found the queued premove of the side to move
\* illegal (or refused by the clock) and is about to store the cleared slot
RejectedPremove(p) ==
    procs[p].op = "make_move" /\ procs[p].pc = "pm_persist" /\ procs[p].pm = "rejected"

\* C13: when a queued premove is rejected at execution, the invocation has
\* emitted premove_rejected and premove_cleared{rejected} for the premover's
\* colour and no move_made for the premove, its document keeps the history
\* that holds the normal move, and its write leaves the stored history alone
\* and stores the empty slot.
C13_RejectedPremove ==
    [][\A p \in Procs :
         RejectedPremove(p) /\ procs'[p].op = "idle" =>
            LET c == TurnColor(procs[p].loaded.pgn)
                k == Len(procs[p].sent)
            IN /\ k >= 4
               /\ procs[p].sent[k - 1] = Ev("premove_rejected", 0, c, "none", "none")
               /\ procs[p].sent[k] = Ev("premove_cleared", 0, c, "none", "rejected")
               /\ CountPremoveMoves(procs[p].sent) = 0
               /\ procs[p].game.pgn = procs[p].loaded.pgn
               /\ db'.pgn = db.pgn
               /\ getPremove(db', c) = NoPremove]_vars

C13_Witness ==
    \E p \in Procs :
        /\ RejectedPremove(p)
        /\ ~Legal(procs[p].loaded.pgn, getPremove(procs[p].loaded, TurnColor(procs[p].loaded.pgn)).mv)

\* C14: a disconnect episode never gets both outcomes: opponent_reconnected
\* and game_over with reason disconnect_timeout are not both emitted after
\* one stored disconnect marker.
C14_OneDisconnectOutcome == episode # {"reconnected", "forfeited"}

\* C15: a stored game with status completed has its result set, its clock
\* stopped (activeColor none) and both premove slots empty.
C15_CompletedIsClean ==
    db.status = "completed" =>
        /\ db.result # "none"
        /\ db.clock.activeColor = "none"
        /\ db.qpWhite = NoPremove
        /\ db.qpBlack = NoPremove

\* C16: in the stored state of an ongoing game the side to move has no
\* queued premove.
C16_NoPremoveOnOwnTurn ==
    db.status = "ongoing" => getPremove(db, TurnColor(db.pgn)) = NoPremove

\* C17: the stored clock never holds a negative remaining time.
C17_ClockNonNegative == db.clock.whiteTime >= 0 /\ db.clock.blackTime >= 0

\* C18: set_premove emits premove_set and stores the premove only if, in the
\* stored state at that moment, the game is ongoing, the caller is one of its
\* players and it is not the caller's turn.
C18_SetPremoveRejects ==
    [][\A p \in Procs :
         /\ procs[p].op = "set_premove"
         /\ procs[p].pc \in {"release", "persist"}
         /\ procs'[p].pc # procs[p].pc
         => SetPremoveAccepts(db, procs[p].user)]_vars

\* C19: once a player's set_premove and the same player's later
\* cancel_premove have both run and no write is pending, that player's
\* stored premove slot is empty.
C19_SetThenCancelIsEmpty ==
    \A c \in Colors :
        Quiescent /\ premoveReq[c] = "cancelled" => getPremove(db, c) = NoPremove

\* C20: the timeout checker stores the first-move abort only while the
\* stored clock has not been started (activeColor none) and no move_made has
\* been broadcast.
C20_FirstMoveAbortOnlyBeforeFirstMove ==
    [][\A p \in Procs :
         /\ procs[p].op = "watch" /\ procs[p].pc = "w_first"
         /\ procs'[p].op = "idle"
         /\ db' # db
         => db.clock.activeColor = "none" /\ lastMovePly = 0]_vars

\* a makeMove call has been made on the clock
Called == clk.calls > 0

\* the latest call was a move on a running clock (elapsed time deducted,
\* compensation and increment credited)
RegularMove == Called /\ clk.err = "none" /\ clk.before.activeColor # "none"

\* C21: the lag compensation credited to the mover is
\* min(now - clientTimestamp, 500 ms) for a client timestamp that is present,
\* positive and not in the future, and 0 for any other.
C21_LagCompensation ==
    RegularMove =>
        clk.comp = IF clk.cts > 0 /\ clk.cts <= clk.time
                   THEN Min(clk.time - clk.cts, MAX_LAG_COMPENSATION)
                   ELSE 0

\* 2 * baseTime of the clock model's clocks
TwiceBase == 2 * NewClock(T0).whiteTime

\* C22 as stated: while no call has timed out, whiteTime + blackTime is
\* 2 * base + moveCount * increment - elapsed deducted + compensation credited.
C22_ConservationAsStated ==
    ~clk.flagged =>
        clk.clock.whiteTime + clk.clock.blackTime =
            TwiceBase + clk.clock.moveCount * clk.clock.increment
                - clk.elapsedSum + clk.compSum

\* C22 amended: the first move credits no increment, so the sum is
\* 2 * base + (moveCount - 1) * increment - elapsed deducted + compensation
\* credited once a move has been made, and 2 * base before.
C22_Conservation ==
    ~clk.flagged =>
        clk.clock.whiteTime + clk.clock.blackTime =
            TwiceBase + Max(clk.clock.moveCount - 1, 0) * clk.clock.increment
                - clk.elapsedSum + clk.compSum

C22_Witness ==
    /\ ~clk.flagged
    /\ clk.clock.moveCount >= 3
    /\ clk.clock.increment > 0
    /\ clk.elapsedSum > 0
    /\ clk.compSum > 0

\* the draw-offer counter of a player in a document
DrawOffers(g, user) == IF user = "W" THEN g.whiteDrawOffers ELSE g.blackDrawOffers

\* an offer_draw invocation stores its offer and emits draw_offered in this step
OfferCommits(p) ==
    procs[p].op = "offer_draw" /\ procs[p].pc = "save" /\ procs'[p].op = "idle"

\* C23: an offer is stored and draw_offered emitted only if, in the stored
\* game at that moment, the game is ongoing, no offer is pending and the
\* caller has made fewer than 2 offers; the stored counter of the caller then
\* rises by exactly 1; and no stored counter ever exceeds 2.
C23_OfferDrawGuards ==
    /\ [](db.whiteDrawOffers <= 2 /\ db.blackDrawOffers <= 2)
    /\ [][\A p \in Procs :
            OfferCommits(p) =>
                /\ OfferDrawAccepts(db, procs[p].user)
                /\ DrawOffers(db', procs[p].user) = DrawOffers(db, procs[p].user) + 1]_vars

\* an invocation of cancel_game stores the abort in this step
CancelCommits(p) ==
    procs[p].op = "cancel_game" /\ procs[p].pc = "save" /\ procs'[p].op = "idle"

\* C24: cancel_game stores the abort only while the stored history has fewer
\* than 2 half-moves.
C24_CancelOnlyBeforeTwoPlies ==
    [][\A p \in Procs : CancelCommits(p) => Len(db.pgn) < 2]_vars

\* a withLock call whose function threw
Threw(call) == call.pc = "done" /\ call.fn = "threw"

\* C25: a withLock call whose function threw fails with that error and has
\* released the lock: in the in-memory manager its promise is resolved, so
\* the call queued behind it is not held back; in the Redis manager the key
\* is gone, so an unexpired key always belongs to a call still running its
\* function.
C25_ThrowReleasesLock ==
    /\ \A c \in Calls :
         mem.calls[c].pc = "done" =>
            /\ mem.calls[c].resolved
            /\ mem.calls[c].outcome = mem.calls[c].fn
    /\ \A c \in Calls :
         red.calls[c].pc = "done" => red.calls[c].outcome = red.calls[c].fn
    /\ (red.key /\ red.time < red.expiresAt) =>
            \E c \in Calls : red.calls[c].pc = "running"

\* a call threw inside the lock and the call queued behind it has run
C25_Witness ==
    \E c, d \in Calls :
        /\ Threw(mem.calls[d])
        /\ mem.calls[c].pending = d
        /\ mem.calls[c].pc = "done"

\* the slot the latest call on the store was about, read with getPremove
LatestSlot == GetPremove(pq.store, pq.game, pq.color)

\* every slot but the one of the latest call reads as before the call
OtherSlotsUnchanged ==
    \A g \in QueueGames, color \in Colors :
        (g # pq.game \/ color # pq.color) =>
            GetPremove(pq.store, g, color) = GetPremove(pq.before, g, color)

\* the premove s carries the fields given in p (an absent promotion or
\* sourceMoveNo reads as undefined or null, an absent setAt is filled in)
CarriesFields(s, p) ==
    /\ s.from = p.from
    /\ s.to = p.to
    /\ s.promotion = (IF Falsy(p.promotion) THEN "undefined" ELSE p.promotion)
    /\ p.setAt # 0 => s.setAt = p.setAt
    /\ s.sourceMoveNo =
         (IF p.sourceMoveNo = "undefined" THEN "null" ELSE p.sourceMoveNo)

\* C26: after setPremove(gameId, color, p), getPremove(gameId, color) returns
\* p with its from, to, promotion, setAt and sourceMoveNo; after
\* clearPremove(gameId, color) it returns null; in both cases the other
\* colour's slot and the slots of every other game read as before.
C26_OneSlotPerGameAndColor ==
    /\ pq.op = "setPremove" =>
          /\ LatestSlot # Null
          /\ CarriesFields(LatestSlot[1], pq.arg[1])
          /\ OtherSlotsUnchanged
    /\ pq.op = "clearPremove" =>
          /\ LatestSlot = Null
          /\ OtherSlotsUnchanged

\* a colour's premove was cleared while the other colour of the game had one
C26_Witness ==
    /\ pq.op = "clearPremove"
    /\ GetPremove(pq.before, pq.game, pq.color) # Null
    /\ \E color \in Colors \ {pq.color} :
          GetPremove(pq.store, pq.game, color) # Null

\* C27: after rehydrate(gameId, stored), getPremove returns for each colour
\* the stored premove with its fields, and null for a colour whose stored
\* entry is null or lacks from/to; rehydrate(gameId, null) changes nothing.
C27_RehydrateThenGet ==
    pq.op = "rehydrate" =>
        IF pq.stored = Null THEN pq.store = pq.before
        ELSE \A color \in Colors :
                LET q == pq.stored[1][color]
                    s == GetPremove(pq.store, pq.game, color)
                IN IF Complete(q)
                   THEN /\ s # Null
                        /\ CarriesFields(s[1], q[1])
                        /\ s[1].setAt = q[1].setAt
                   ELSE s = Null

\* the clock engine returned a timeout result for the move of make_move
\* invocation p, which is about to persist
MoveFlagged(p) ==
    /\ procs[p].op = "make_move" /\ procs[p].pc = "persist"
    /\ \E i \in DOMAIN procs[p].sent :
          procs[p].sent[i].ev = "game_over" /\ procs[p].sent[i].reason = "timeout"

\* the clock engine returned a timeout result for the premove that make_move
\* invocation p executed, which is about to persist
PremoveFlagged(p) ==
    procs[p].op = "make_move" /\ procs[p].pc = "pm_persist" /\ procs[p].pm = "timeout"

\* the stored game ended on time against the side to move in history h
StoredTimeoutLoss(g, h) ==
    /\ g.status = "completed"
    /\ g.resultReason = "timeout"
    /\ g.result = (IF Turn(h) = "w" THEN "black" ELSE "white")

\* C28: when the clock engine returns a timeout result for a move or for an
\* executed premove, the write of that invocation does not append the
\* flagging move to the stored history, the invocation has broadcast no
\* move_made for it, and the stored game is completed with reason timeout
\* and the other side as winner.
C28_TimeoutShortCircuits ==
    [][\A p \in Procs :
         /\ (MoveFlagged(p) /\ procs'[p].op = "idle") =>
               /\ db'.pgn # Append(procs[p].loaded.pgn, procs[p].move)
               /\ \A i \in DOMAIN procs[p].sent : procs[p].sent[i].ev # "move_made"
               /\ StoredTimeoutLoss(db', procs[p].loaded.pgn)
         /\ (PremoveFlagged(p) /\ procs'[p].op = "idle") =>
               /\ db'.pgn # procs[p].game.pgn
               /\ StoredTimeoutLoss(db', procs[p].loaded.pgn)]_vars

\* the latest makeMove call has just returned (no time has passed since)
JustCalled == Called /\ ~clk.waited

\* C29: on a clock whose activeColor is none, a move by white sets
\* activeColor to black, lastMoveAt to now, firstMoveDeadline to none and
\* moveCount to 1, and leaves both remaining times unchanged.
C29_FirstMoveStartsClock ==
    (JustCalled /\ clk.before.activeColor = "none" /\ clk.color = "w") =>
        /\ clk.err = "none"
        /\ ~clk.timeout
        /\ clk.clock.activeColor = "b"
        /\ clk.clock.lastMoveAt = clk.time
        /\ clk.clock.firstMoveDeadline = 0
        /\ clk.clock.moveCount = 1
        /\ clk.clock.whiteTime = clk.before.whiteTime
        /\ clk.clock.blackTime = clk.before.blackTime

\* white made the first move on a clock with an increment, with a client
\* timestamp that a regular move would have been compensated for
C29_Witness ==
    /\ JustCalled /\ clk.before.activeColor = "none" /\ clk.color = "w"
    /\ clk.clock.increment > 0
    /\ clk.comp > 0

\* the latest makeMove call was made by a colour not entitled to move
WrongTurn ==
    /\ Called
    /\ \/ clk.before.activeColor = "none" /\ clk.color = "b"
       \/ clk.before.activeColor \notin {"none", clk.color}

\* C30: makeMove by a colour not entitled to move (black while activeColor
\* is none, or a colour other than activeColor while the clock runs) fails
\* with a wrong-turn error and leaves both times, activeColor, lastMoveAt,
\* firstMoveDeadline and moveCount unchanged.
C30_WrongTurnChangesNothing ==
    WrongTurn =>
        /\ clk.err \in {"White must make the first move", "Not your turn"}
        /\ clk.clock.whiteTime = clk.before.whiteTime
        /\ clk.clock.blackTime = clk.before.blackTime
        /\ clk.clock.activeColor = clk.before.activeColor
        /\ clk.clock.lastMoveAt = clk.before.lastMoveAt
        /\ clk.clock.firstMoveDeadline = clk.before.firstMoveDeadline
        /\ clk.clock.moveCount = clk.before.moveCount

\* a colour moved out of turn on a running clock, some time after the last
\* move
C30_Witness ==
    /\ WrongTurn
    /\ clk.before.activeColor # "none"
    /\ clk.time > clk.clock.lastMoveAt
    /\ clk.err # "none"

\* the latest makeMove call deducted time and left a side at or below zero
FlagFell ==
    /\ RegularMove
    /\ (clk.clock.whiteTime <= 0 \/ clk.clock.blackTime <= 0)

\* C31: if after deduction, lag compensation and increment a side's time is
\* at or below zero, makeMove returns a timeout result whose winner is the
\* other side, and activeColor, lastMoveAt and moveCount keep the values
\* they had before the call; a timeout result is returned in no other case.
C31_FlagFallKeepsTurn ==
    /\ FlagFell =>
          /\ clk.timeout
          /\ clk.winner = (IF clk.clock.whiteTime <= 0 THEN "black" ELSE "white")
          /\ clk.winner # (IF clk.before.activeColor = "w" THEN "white" ELSE "black")
          /\ clk.clock.activeColor = clk.before.activeColor
          /\ clk.clock.lastMoveAt = clk.before.lastMoveAt
          /\ clk.clock.moveCount = clk.before.moveCount
    /\ (Called /\ clk.timeout) => FlagFell

\* a side ran out of time on a move
C31_Witness == FlagFell /\ clk.timeout /\ clk.before.moveCount >= 2

\* the disconnect deadline stored in g has passed at time t
DisconnectExpired(g, t) == g.disconnectDeadlineAt # 0 /\ t >= g.disconnectDeadlineAt

\* a deadline of the clock of g has passed at time t
ClockExpired(g, t) ==
    IsFirstMoveExpired(g.clock, t) \/ (g.clock.lastMoveAt # 0 /\ IsTimeout(g.clock, t))

\* C32: a watcher pass that finds the disconnect deadline of the game expired
\* takes the disconnect branch and neither the first-move nor the flag-fall
\* branch; if the disconnected player has no live connection it goes on to
\* the disconnect termination, which ends the still ongoing game with reason
\* disconnect_timeout; the first-move and flag-fall branches are taken, in
\* this order, only when the disconnect deadline has not expired.
C32_DisconnectCheckedFirst ==
    [][\A p \in Procs :
         /\ (procs[p].op = "idle" /\ procs'[p].op = "watch") =>
               /\ DisconnectExpired(db, now) => procs'[p].pc \in {"w_sockets", "w_disc"}
               /\ procs'[p].pc = "w_first" => IsFirstMoveExpired(db.clock, now)
               /\ procs'[p].pc = "w_flag" => ~IsFirstMoveExpired(db.clock, now)
         /\ (procs[p].op = "watch" /\ procs[p].pc = "w_sockets"
             /\ procs'[p] # procs[p]
             /\ conn[procs[p].loaded.disconnectedPlayerId] = 0) =>
               procs'[p].pc = "w_disc"
         /\ (procs[p].op = "watch" /\ procs[p].pc = "w_disc"
             /\ procs'[p] # procs[p]) =>
               /\ procs'[p].pc \notin {"w_first", "w_flag"}
               /\ (db.status = "ongoing" /\ db = procs[p].loaded) =>
                     /\ db'.status = "completed"
                     /\ db'.resultReason = "disconnect_timeout"]_vars

\* a pass has ended a game by disconnect_timeout whose clock deadline had
\* expired as well
C32_Witness ==
    \E p \in Procs :
        /\ procs[p].op = "watch" /\ procs[p].pc = "w_stats"
        /\ procs[p].move = "disconnect_timeout"
        /\ ClockExpired(procs[p].loaded, now)
        /\ db.resultReason = "disconnect_timeout"

\* the disconnecting handler p writes its marker and emits
\* opponent_disconnected with the deadline in this step
MarkerCommits(p) ==
    procs[p].op = "disconnecting" /\ procs[p].pc = "d_save" /\ procs'[p].op = "idle"

\* C33: a disconnect marker is written only for a player of the game, with
\* the deadline 20 s after the handler read the clock, while the stored game
\* is ongoing and no connection of that user remains; the stored game then
\* carries the marker and is still ongoing.
C33_MarkerOnlyWhenGone ==
    [][\A p \in Procs :
         MarkerCommits(p) =>
            /\ procs[p].user \in {"W", "B"}
            /\ db.status = "ongoing"
            /\ conn[procs[p].user] = 0
            /\ db'.status = "ongoing"
            /\ db'.disconnectedPlayerId = procs[p].user
            /\ db'.disconnectDeadlineAt <= now + DisconnectGraceMs]_vars

\* C34: for a completed game accept_rematch creates at most one new game;
\* nextGameId, once set, never changes; every game created has the colours
\* of the two players swapped.
C34_OneRematchGame ==
    /\ [](Len(rm.created) <= 1)
    /\ [](\A i \in DOMAIN rm.created : rm.created[i] = RematchGame)
    /\ [][rm.game.nextGameId # 0 => rm'.game.nextGameId = rm.game.nextGameId]_vars

\* watcher pass p stores the disconnect_timeout termination in this step
DisconnectTimeoutCommits(p) ==
    /\ procs[p].op = "watch" /\ procs[p].pc = "w_disc"
    /\ procs'[p].pc = "w_stats"
    /\ db'.resultReason = "disconnect_timeout"

\* C35: the watcher stores a disconnect_timeout termination only if the
\* disconnect deadline stored at that moment has passed.
C35_CommitOnStoredDeadline ==
    [][\A p \in Procs :
         DisconnectTimeoutCommits(p) => DisconnectExpired(db, now)]_vars

\* C36: no ply number is broadcast twice: a step that emits move_made does
\* not emit it for the ply of the move_made emitted last before it (a
\* consequence of: for each ply n at most one move_made carries moveCount n).
C36_OneMovePerPly ==
    [][\A n \in MovePlies(out') : n # lastMovePly]_vars

\* make_move invocation p completes its last write in this step
MoveWritesLast(p) ==
    /\ procs[p].op = "make_move"
    /\ procs[p].pc \in {"persist", "pm_persist"}
    /\ procs'[p].op = "idle"

\* C37: when a make_move invocation has completed its terminating write,
\* every game_over event it emitted carries the result and the reason that
\* are stored for the game.
C37_GameOverMatchesStored ==
    [][\A p \in Procs :
         MoveWritesLast(p) =>
            \A i \in DOMAIN procs[p].sent :
                procs[p].sent[i].ev = "game_over" =>
                    /\ procs[p].sent[i].result = db'.result
                    /\ procs[p].sent[i].reason = db'.resultReason]_vars

\* the premoves the in-memory queue of the game holds
QueuedInMemory ==
    { GetPremove(hy.store, "g1", c)[1].from :
        c \in {d \in Colors : GetPremove(hy.store, "g1", d) # Null} }

\* C38: the in-memory queue never holds a premove that was already cleared
\* in memory as executed, rejected or cancelled (join_game's rehydrate does
\* not put it back), and no premove is executed twice or after it was
\* cancelled
C38_ClearedPremoveStaysCleared ==
    /\ QueuedInMemory \cap hy.cleared = {}
    /\ \A i, j \in 1 .. Len(hy.executed) : hy.executed[i] = hy.executed[j] => i = j

\* the player has no live connection to the ongoing game
Dropped(u) == db.status = "ongoing" /\ conn[u] = 0

\* C39: whenever a player of the ongoing game has no live connection, either
\* the player connects again or the game is eventually completed, whatever
\* the other player's sockets do in the meantime
C39_DroppedGameCompletes ==
    \A u \in {"W", "B"} : Dropped(u) ~> (conn[u] > 0 \/ db.status # "ongoing")

\* white is gone, black has left and come back (the marker is cleared) and the
\* watcher has ended the game on a clock
C39_Witness ==
    /\ db.status = "completed"
    /\ conn["W"] = 0 /\ conn["B"] > 0
    /\ ops = MaxOps
    /\ \A p \in Procs : procs[p].op = "idle"
    /\ db.disconnectedPlayerId = "none"
    /\ db.resultReason = "timeout"

\* a step in which fn of call c starts
FnStarts(c) ==
    \/ mem.calls[c].pc # "running" /\ mem'.calls[c].pc = "running"
    \/ red.calls[c].pc # "running" /\ red'.calls[c].pc = "running"

\* C40: every withLock call that was made settles (the function of every
\* holder settling): it has run its function, or, with the Redis lock, it
\* has failed without running it after at most RetryLimit attempts; a call
\* that has settled stays settled and no function starts a second time
C40_WithLockTerminates ==
    /\ \A c \in Calls : (mem.calls[c].pc = "waiting") ~> (mem.calls[c].pc = "done")
    /\ \A c \in Calls :
         (red.calls[c].pc = "trying") ~> (red.calls[c].pc \in {"done", "failed"})
    /\ [](\A c \in Calls :
            /\ red.calls[c].attempts <= RetryLimit
            /\ red.calls[c].pc = "failed" =>
                 red.calls[c].fn = "none" /\ red.calls[c].outcome = "threw"
            /\ red.calls[c].pc = "done" => red.calls[c].fn \in FnOutcomes
            /\ mem.calls[c].pc = "done" => mem.calls[c].fn \in FnOutcomes)
    /\ [][\A c \in Calls :
            /\ FnStarts(c) => mem.calls[c].fn = "none" /\ red.calls[c].fn = "none"
                              /\ mem.calls[c].pc # "done"
                              /\ red.calls[c].pc \notin {"done", "failed"}
            /\ mem.calls[c].pc = "done" => mem'.calls[c].pc = "done"
            /\ red.calls[c].pc \in {"done", "failed"} =>
                 red'.calls[c].pc = red.calls[c].pc]_vars

\* a call of the Redis lock has given up without running its function while
\* another call has run its own
C40_Witness ==
    \E c, d \in Calls :
        /\ red.calls[c].pc = "failed" /\ red.calls[c].fn = "none"
        /\ red.calls[d].pc = "done" /\ red.calls[d].fn \in FnOutcomes

====
